---- MODULE Spec2Model ----
(***************************************************************************)
(* Cross-context removal workflow of the ClearTok extension.               *)
(*                                                                         *)
(* Three contexts are modelled:                                            *)
(*   - the background service worker (StateManager: canonical state),      *)
(*   - the content script of the TikTok tab (StateStore cache, MessageBus  *)
(*     handlers, WorkflowManager runs),                                    *)
(*   - the popup (ProcessLoggerManager flags, the commands it sends).      *)
(* Messages between background and content script travel in FIFO queues.   *)
(* A WorkflowManager run is a sequence of steps; one step is the code      *)
(* executed between two real suspension points (a message round trip, a    *)
(* timer, a DOM wait).                                                     *)
(***************************************************************************)
EXTENDS Integers, Sequences, FiniteSets, TLC

(* ------------------------------ bounds -------------------------------- *)
MaxItems == 3        \* longest repost list of the page
PageLen == 1         \* items of the page when runs interleave
MaxQuota == 2        \* largest stored quotaInfo.remaining
MaxStarts == 2       \* start clicks of the popup
MaxTabs == 1         \* TikTok tabs ever created
MaxQueue == 2        \* messages in flight per direction
MaxWorkflows == 2    \* WorkflowManager.start() executions alive at once
MaxPauses == 2       \* pause/resume clicks and popup closings

(* ------------------------- program constants --------------------------- *)
NoTab == 0               \* process.tabId: null
NoTime == 0              \* process.startTime: null
Now == 1                 \* any Date.now() value
NoQuota == -1            \* chrome.storage.local holds no quotaInfo.remaining
UNLIMITED == 2147483647  \* Number.MAX_SAFE_INTEGER of getQuotaInfo, cut to the integers of TLC
DefaultMaxRemoval == 100 \* quotaInfo.remaining || 100

VARIABLES
    canon,        \* StateManager.state (background)
    cache,        \* StateStore.state (content script)
    toTab,        \* messages background -> content script, in order
    toBg,         \* messages content script -> background, in order
    wf,           \* the executions of WorkflowManager.start()
    popup,        \* ProcessLoggerManager.isProcessing / isPaused
    tikTab,       \* the open TikTok tab (NoTab: none)
    csAlive,      \* the content scripts are injected in tikTab
    nextTab,      \* id the next created tab gets
    rrPending,    \* handleRemoveReposts calls waiting to send START_REMOVAL
    tabClosedLog, \* TAB_CLOSED events sent to the popup (wasRunning: a history field)
    starts,       \* start clicks so far
    pauses,       \* pause/resume clicks and popup closings so far
    pauseHandled, \* the content script handled PAUSE_REMOVAL, no RESUME since
    stoppedBy,    \* what made canonical isRunning false (a history variable)
    border,       \* window.clearTokBorder is shown in the tab
    items,        \* the reposts of the page, in player order
    quota,        \* stored quotaInfo.remaining (NoQuota: none)
    storage,      \* chrome.storage.local, its key cleartokState
    extraBuses,   \* MessageBus instances made by waitForElement timeouts
    delivery,     \* the message chrome.runtime.onMessage is delivering, and where
    pendingL,     \* listeners of that context that have not answered yet
    replies,      \* the sendResponse calls for that message, in order
    received,     \* what the sender of the last delivered message got
    mergePrev,    \* a state given to updateState
    mergePartial, \* the partial given to updateState
    mergeResult,  \* the state updateState leaves
    scroll,       \* a call of UIManager.autoScrollToBottom
    wait,         \* a call of UIManager.waitForElement
    loading,      \* the StateManager is constructed, loadFromStorage has not completed
    rrReply,      \* the reply to the last REMOVE_REPOSTS answered
    csReady       \* main.js has registered the START_REMOVAL handler

vars == <<canon, cache, toTab, toBg, wf, popup, tikTab, csAlive, nextTab,
          rrPending, tabClosedLog, starts, pauses, pauseHandled, stoppedBy, border, items, quota,
          storage, extraBuses, delivery, pendingL, replies, received,
          mergePrev, mergePartial, mergeResult, scroll, wait,
          loading, rrReply, csReady>>

\* the variables of message delivery
routerVars == <<extraBuses, delivery, pendingL, replies, received>>

\* the variables of a merge taken alone
mergeVars == <<mergePrev, mergePartial, mergeResult>>

\* the variables of the two waits of UIManager taken alone
uiVars == <<scroll, wait>>

\* the start of the background and the replies to the popup's start requests
bgVars == <<loading, rrReply, csReady>>

W == 1..MaxWorkflows

(* ------------------------------ state --------------------------------- *)
ZeroStats ==
    [totalReposts |-> 0, processedVideos |-> 0, removedVideos |-> 0, skippedVideos |-> 0]

defaultState ==
    [process |-> [isRunning |-> FALSE, isPaused |-> FALSE, tabId |-> NoTab, startTime |-> NoTime],
     stats |-> ZeroStats,
     currentVideo |-> [index |-> 0],
     removedList |-> <<>>]

EmptyObject == [k \in {} |-> TRUE]

\* source[key] && typeof source[key] === 'object' && !Array.isArray(source[key]):
\* of the keys the program ever puts in a state or an update, these hold objects.
IsPlainObject(key) == key \in {"process", "stats", "currentVideo"}

RECURSIVE deepMergeSwapped(_, _)
deepMergeSwapped(target, source) ==
    [key \in DOMAIN target \cup DOMAIN source |->
        IF key \notin DOMAIN source THEN target[key]
        ELSE IF key \notin DOMAIN target THEN source[key]
        ELSE IF IsPlainObject(key) THEN deepMergeSwapped(target[key], source[key])
        ELSE target[key]]

RECURSIVE deepMerge(_, _)
deepMerge(target, source) ==
    [key \in DOMAIN target \cup DOMAIN source |->
        IF key \notin DOMAIN source THEN target[key]
        ELSE IF IsPlainObject(key)
             THEN deepMerge(IF key \in DOMAIN target THEN target[key] ELSE EmptyObject,
                            source[key])
             ELSE source[key]]

\* StateStore.deepMerge: the same code as StateManager.deepMerge
storeDeepMerge(target, source) == deepMerge(target, source)

(* ------------------------- values of JavaScript ----------------------- *)
\* a value with its type: a primitive (an integer; 0 stands for the falsy
\* ones), null, undefined, an array of primitives, a plain object
JsPrim(n) == [t |-> "prim", p |-> n, a |-> <<>>, o |-> EmptyObject]
JsNull == [t |-> "null", p |-> 0, a |-> <<>>, o |-> EmptyObject]
JsUndefined == [t |-> "undefined", p |-> 0, a |-> <<>>, o |-> EmptyObject]
JsArray(s) == [t |-> "array", p |-> 0, a |-> s, o |-> EmptyObject]
JsObject(f) == [t |-> "object", p |-> 0, a |-> <<>>, o |-> f]

\* the value as a condition
Truthy(v) == v.t \in {"object", "array"} \/ (v.t = "prim" /\ v.p # 0)

\* source[key] && typeof source[key] === 'object' && !Array.isArray(source[key])
IsMergedKey(v) == Truthy(v) /\ v.t \in {"object", "array", "null"} /\ v.t # "array"

\* the property names of the indices of an array
IndexKeys == <<"0", "1", "2">>

\* { ...target }: the own properties of an object, the indices of an array,
\* nothing of a primitive, null or undefined
spread(v) ==
    IF v.t = "object" THEN v.o
    ELSE IF v.t = "array"
         THEN [k \in {IndexKeys[i] : i \in DOMAIN v.a} |->
                  JsPrim(v.a[CHOOSE i \in DOMAIN v.a : IndexKeys[i] = k])]
    ELSE EmptyObject

\* target[key] || {}
orEmptyObject(v) == IF Truthy(v) THEN v ELSE JsObject(EmptyObject)

shallowMerge(target, source) ==
    JsObject([key \in DOMAIN spread(target) \cup DOMAIN source.o |->
                 IF key \in DOMAIN source.o THEN source.o[key] ELSE spread(target)[key]])

\* StateManager.deepMerge (and StateStore.deepMerge, the same code) on values
RECURSIVE jsDeepMerge(_, _)
jsDeepMerge(target, source) ==
    JsObject([key \in DOMAIN spread(target) \cup DOMAIN source.o |->
                 IF key \notin DOMAIN source.o THEN spread(target)[key]
                 ELSE IF IsMergedKey(source.o[key])
                      THEN jsDeepMerge(orEmptyObject(IF key \in DOMAIN spread(target)
                                                     THEN spread(target)[key]
                                                     ELSE JsUndefined),
                                       source.o[key])
                      ELSE source.o[key]])

(* ----------------------------- messages ------------------------------- *)
\* awaiter: the workflow execution that awaits the reply (0: nobody)
Msg(type, payload, awaiter) == [type |-> type, payload |-> payload, awaiter |-> awaiter]
NoPayload == [none |-> TRUE]

\* the reply of sendToBackground has arrived
AwaitDone(w) == \A i \in DOMAIN toBg : toBg[i].awaiter # w

(* ----------------------------- updates -------------------------------- *)
startProcessUpdates ==
    [process |-> [isRunning |-> TRUE, isPaused |-> FALSE, startTime |-> Now],
     stats |-> ZeroStats,
     removedList |-> <<>>]

stopProcessUpdates ==
    [process |-> [isRunning |-> FALSE, isPaused |-> FALSE, tabId |-> NoTab, startTime |-> NoTime]]

setPausedUpdates(isPaused) == [process |-> [isPaused |-> isPaused]]

setTotalUpdates(count) == [stats |-> [totalReposts |-> count]]

setCurrentVideoUpdates(index) == [currentVideo |-> [index |-> index]]

resetProcessUpdates(keepTabId) ==
    [process |-> IF keepTabId
                 THEN [isRunning |-> FALSE, isPaused |-> FALSE, startTime |-> NoTime]
                 ELSE [isRunning |-> FALSE, isPaused |-> FALSE, startTime |-> NoTime,
                       tabId |-> NoTab],
     currentVideo |-> [index |-> 0]]

resetProcessKeepStatsLosing(state) ==
    [process |-> [isRunning |-> FALSE, isPaused |-> FALSE, tabId |-> NoTab,
                  startTime |-> state.process.startTime],
     stats |-> ZeroStats,
     currentVideo |-> [index |-> 0]]

resetProcessKeepStats(state) ==
    [process |-> [isRunning |-> FALSE, isPaused |-> FALSE, tabId |-> NoTab,
                  startTime |-> state.process.startTime],
     currentVideo |-> [index |-> 0]]

removeRepostsUpdates(tabId) ==
    [process |-> [isRunning |-> FALSE, isPaused |-> FALSE, tabId |-> tabId, startTime |-> Now],
     stats |-> ZeroStats,
     removedList |-> <<>>]

handleContentMessageCountingOnly(state, m) ==
    CASE m.type = "UPDATE_PROGRESS" ->
            [stats |-> [processedVideos |-> m.payload.current,
                        totalReposts |-> m.payload.total]]
      [] m.type = "VIDEO_REMOVED" ->
            [stats |-> [removedVideos |-> state.stats.removedVideos + 1]]
      [] m.type \in {"COMPLETE", "ERROR", "NO_REPOSTS_FOUND"} ->
            [process |-> [isRunning |-> FALSE, isPaused |-> FALSE]]
      [] OTHER -> EmptyObject

\* handleContentMessage: the update each content-script event makes
handleContentMessage(state, m) ==
    CASE m.type = "UPDATE_PROGRESS" ->
            [stats |-> [processedVideos |-> m.payload.current,
                        totalReposts |-> m.payload.total]]
      [] m.type = "VIDEO_REMOVED" ->
            [stats |-> [removedVideos |-> state.stats.removedVideos + 1],
             removedList |-> Append(state.removedList, m.payload.index)]
      [] m.type \in {"COMPLETE", "ERROR", "NO_REPOSTS_FOUND"} ->
            [process |-> [isRunning |-> FALSE, isPaused |-> FALSE]]
      [] OTHER -> EmptyObject

\* StateManager.broadcastState, the part sent to the content script
broadcastState(queue, state, tab, alive) ==
    IF state.process.tabId # NoTab /\ state.process.tabId = tab /\ alive
    THEN Append(queue, Msg("STATE_CHANGED", state, 0))
    ELSE queue

\* ClearTokExtension.handleStateChanged
handleStateChanged(state) ==
    [isProcessing |-> state.process.isRunning, isPaused |-> state.process.isPaused]

(* ----------------------------- workflow ------------------------------- *)
idleWorkflow ==
    [pc |-> "idle", cursor |-> 0, removedCount |-> 0, maxRemoval |-> 0, snapTotal |-> 0,
     exit |-> "none", failed |-> FALSE, threw |-> FALSE, errSent |-> FALSE,
     completeSent |-> FALSE,
     sawRunning |-> FALSE, missed |-> FALSE, finRemoved |-> 0, finTotal |-> 0]

Active(w) == wf[w].pc \notin {"idle", "done"}

getQuotaInfo == IF quota # NoQuota THEN quota ELSE UNLIMITED


maxRemovalOfIgnoringQuota(remaining) == DefaultMaxRemoval

\* quotaInfo.remaining || 100
maxRemovalOf(remaining) == IF remaining = 0 THEN DefaultMaxRemoval ELSE remaining

Max(a, b) == IF a >= b THEN a ELSE b

\* StateManager.updateState, the merge (the broadcast is broadcastState)
updateState(state, updates) == deepMerge(state, updates)

\* the history of canonical isRunning: what made it false
stopCause(new, cause) ==
    IF new.process.isRunning THEN "none"
    ELSE IF canon.process.isRunning THEN cause ELSE stoppedBy

(* ------------------------------- Init --------------------------------- *)
ItemKinds == {"repost", "plain", "nobutton"}

ItemLists == UNION {[1..n -> ItemKinds] : n \in 0..MaxItems}

\* no message is being delivered
NoDelivery == [ctx |-> "none", type |-> "none"]

\* the sender's callback got undefined: nobody called sendResponse
NoReply == [wrapped |-> FALSE, success |-> FALSE, result |-> "undefined", error |-> ""]

\* sendResponse({ success: true, result }), ({ success: false, error }), (value)
SuccessReply(result) == [wrapped |-> TRUE, success |-> TRUE, result |-> result, error |-> ""]
FailureReply(error) ==
    [wrapped |-> TRUE, success |-> FALSE, result |-> "undefined", error |-> error]
RawReply(value) == [wrapped |-> FALSE, success |-> FALSE, result |-> value, error |-> ""]

\* no poll of the call has seen the count grow
NoGrowth == -1

\* autoScrollToBottom has not been called: its locals, what it called back
\* (the isFinal of each onProgress), what it resolved with; measured, growths,
\* sinceGrowth, sinceChange and endedBy record what happened
NoScroll ==
    [phase |-> "idle", maxItems |-> 0, elapsed |-> 0,
     lastItemsCount |-> 0, lastHeight |-> 0, noChangeCount |-> 0, maxNoChangeCount |-> 0,
     finished |-> FALSE, firstProgressReported |-> FALSE,
     calls |-> <<>>, result |-> 0,
     measured |-> 0, growths |-> 0, sinceGrowth |-> NoGrowth, sinceChange |-> 0,
     endedBy |-> "none"]

\* waitForElement has not been called
NoWait ==
    [phase |-> "idle", timeout |-> 0, elapsed |-> 0, present |-> FALSE,
     result |-> "pending", diagnostics |-> 0]

\* the page of the interleaving specification: reposts and other items in turn
mixedItems == [i \in 1..PageLen |-> IF i % 2 = 1 THEN "repost" ELSE "plain"]

InitCommon ==
    /\ canon = defaultState
    /\ cache = defaultState
    /\ toTab = <<>>
    /\ toBg = <<>>
    /\ wf = [w \in W |-> idleWorkflow]
    /\ popup = [isProcessing |-> FALSE, isPaused |-> FALSE]
    /\ tikTab = NoTab
    /\ csAlive = FALSE
    /\ nextTab = 1
    /\ rrPending = <<>>
    /\ tabClosedLog = <<>>
    /\ starts = 0
    /\ pauses = 0
    /\ pauseHandled = FALSE
    /\ stoppedBy = "none"
    /\ border = FALSE
    /\ storage = EmptyObject
    /\ extraBuses = 0
    /\ delivery = NoDelivery
    /\ pendingL = {}
    /\ replies = <<>>
    /\ received = NoReply
    /\ scroll = NoScroll
    /\ wait = NoWait
    /\ loading = FALSE
    /\ rrReply = NoReply

\* no merge is looked at alone
NoMerge ==
    /\ mergePrev = JsUndefined
    /\ mergePartial = JsUndefined
    /\ mergeResult = JsUndefined

Init ==
    /\ InitCommon
    /\ csReady = TRUE
    /\ NoMerge
    /\ items = mixedItems
    /\ quota = NoQuota

(* ------------------------- popup and background ----------------------- *)
bgFrame == UNCHANGED <<cache, toBg, wf, pauseHandled, border, items, quota, storage, routerVars, mergeVars, uiVars, bgVars>>

\* ProcessLoggerManager.startRemoval, then handleRemoveReposts up to its
\* updateState; what follows its awaits is InjectAndStart
ClickStart ==
    /\ starts < MaxStarts
    /\ ~popup.isProcessing
    /\ LET reuse == canon.process.tabId # NoTab /\ canon.process.tabId = tikTab
           stale == canon.process.tabId # NoTab /\ canon.process.tabId # tikTab
           create == ~reuse /\ tikTab = NoTab
           tab == IF create THEN nextTab ELSE tikTab
           base == IF stale THEN updateState(canon, resetProcessUpdates(FALSE)) ELSE canon
           new == updateState(base, removeRepostsUpdates(tab))
           alive == IF create THEN FALSE ELSE csAlive
       IN /\ create => nextTab <= MaxTabs
          /\ Len(broadcastState(toTab, new, tab, alive)) <= MaxQueue
          /\ canon' = new
          /\ tikTab' = tab
          /\ nextTab' = IF create THEN nextTab + 1 ELSE nextTab
          /\ csAlive' = alive
          /\ toTab' = broadcastState(toTab, new, tab, alive)
          /\ popup' = handleStateChanged(new)
          /\ rrPending' = Append(rrPending, tab)
          /\ stoppedBy' = stopCause(new, "restart")
    /\ starts' = starts + 1
    /\ UNCHANGED pauses
    /\ UNCHANGED tabClosedLog
    /\ bgFrame

InjectAndStartIgnoringFailure ==
    /\ rrPending # <<>>
    /\ rrPending' = Tail(rrPending)
    /\ IF Head(rrPending) = tikTab
       THEN /\ Len(toTab) < MaxQueue
            /\ csAlive' = TRUE
            /\ cache' = IF csAlive THEN cache ELSE canon
            /\ toTab' = Append(toTab, Msg("START_REMOVAL", NoPayload, 0))
       ELSE UNCHANGED <<cache, csAlive, toTab>>
    /\ rrReply' = SuccessReply("started")
    /\ UNCHANGED <<canon, popup, stoppedBy>>
    /\ UNCHANGED <<toBg, wf, pauseHandled, border, items, quota, tikTab, nextTab, tabClosedLog,
                   starts, pauses, storage, routerVars, mergeVars, uiVars, loading, csReady>>

\* handleRemoveReposts after waitForTabComplete: ensureScriptsInjected, then
\* START_REMOVAL; a closed tab makes the injection fail and the catch resets
\* and the request is answered with the error
InjectAndStart ==
    /\ rrPending # <<>>
    /\ rrPending' = Tail(rrPending)
    /\ IF Head(rrPending) = tikTab
       THEN /\ Len(toTab) < MaxQueue
            /\ csAlive' = TRUE
            /\ cache' = IF csAlive THEN cache ELSE canon
            /\ toTab' = Append(toTab, Msg("START_REMOVAL", NoPayload, 0))
            /\ rrReply' = SuccessReply("started")
            /\ UNCHANGED <<canon, popup, stoppedBy>>
       ELSE LET new == updateState(canon, resetProcessUpdates(FALSE))
            IN /\ Len(broadcastState(toTab, new, tikTab, csAlive)) <= MaxQueue
               /\ canon' = new
               /\ toTab' = broadcastState(toTab, new, tikTab, csAlive)
               /\ popup' = handleStateChanged(new)
               /\ stoppedBy' = stopCause(new, "closed")
               /\ rrReply' = FailureReply("Failed to inject scripts")
               /\ UNCHANGED <<cache, csAlive>>
    /\ UNCHANGED <<toBg, wf, pauseHandled, border, items, quota, tikTab, nextTab, tabClosedLog,
                   starts, pauses, storage, routerVars, mergeVars, uiVars, loading, csReady>>

\* the background's forwarding of PAUSE_REMOVAL / RESUME_REMOVAL
forwardToTab(queue, type) ==
    IF canon.process.tabId # NoTab /\ canon.process.tabId = tikTab /\ csAlive
    THEN Append(queue, Msg(type, NoPayload, 0))
    ELSE queue

\* ProcessLoggerManager.togglePause
TogglePause ==
    /\ LET type == IF popup.isPaused THEN "RESUME_REMOVAL" ELSE "PAUSE_REMOVAL"
       IN /\ Len(forwardToTab(toTab, type)) <= MaxQueue
          /\ toTab' = forwardToTab(toTab, type)
    /\ popup' = [popup EXCEPT !.isPaused = ~popup.isPaused]
    /\ UNCHANGED <<canon, tikTab, csAlive, nextTab, rrPending, tabClosedLog, starts, stoppedBy>>
    /\ pauses < MaxPauses
    /\ pauses' = pauses + 1
    /\ bgFrame

\* the popup is closed (beforeunload pauses a run) and opened again
PopupReopen ==
    /\ popup.isProcessing \/ popup.isPaused
    /\ LET pausing == popup.isProcessing /\ ~popup.isPaused
           sent == IF pausing THEN forwardToTab(toTab, "PAUSE_REMOVAL") ELSE toTab
       IN /\ Len(sent) <= MaxQueue
          /\ toTab' = sent
    /\ popup' = [isProcessing |-> FALSE, isPaused |-> FALSE]
    /\ UNCHANGED <<canon, tikTab, csAlive, nextTab, rrPending, tabClosedLog, starts, stoppedBy>>
    /\ pauses < MaxPauses
    /\ pauses' = pauses + 1
    /\ bgFrame

saveWholeState(state) == [cleartokState |-> state]

\* StateManager.saveToStorage: what is written under cleartokState
saveToStorage(state) ==
    [cleartokState |-> [stats |-> state.stats, removedList |-> state.removedList]]

\* the events after which handleContentMessage saves
TerminalEvents == {"COMPLETE", "ERROR", "NO_REPOSTS_FOUND"}

StateChanging ==
    {"UPDATE_STATE", "RESET_STATE", "UPDATE_PROGRESS", "VIDEO_REMOVED", "COMPLETE", "ERROR",
     "NO_REPOSTS_FOUND"}

\* chrome.runtime.onMessage of the background, for a content-script message
BgReceive ==
    /\ toBg # <<>>
    /\ toBg' = Tail(toBg)
    /\ LET m == Head(toBg)
           updates == IF m.type = "UPDATE_STATE" THEN m.payload
                      ELSE IF m.type = "RESET_STATE" THEN resetProcessUpdates(FALSE)
                      ELSE handleContentMessage(canon, m)
           new == updateState(canon, updates)
       IN IF m.type \in StateChanging
          THEN /\ Len(broadcastState(toTab, new, tikTab, csAlive)) <= MaxQueue
               /\ canon' = new
               /\ toTab' = broadcastState(toTab, new, tikTab, csAlive)
               /\ popup' = handleStateChanged(new)
               /\ stoppedBy' = stopCause(new, "finished")
               /\ storage' = IF m.type \in TerminalEvents THEN saveToStorage(new) ELSE storage
          ELSE UNCHANGED <<canon, toTab, popup, stoppedBy, storage>>
    /\ UNCHANGED <<cache, wf, pauseHandled, border, items, quota, tikTab, csAlive, nextTab,
                   rrPending, tabClosedLog, starts, pauses, routerVars, mergeVars, uiVars, bgVars>>

\* chrome.tabs.onRemoved; the tab's content script dies with it
CloseTab ==
    /\ tikTab # NoTab
    /\ LET target == tikTab = canon.process.tabId
           new == IF target THEN updateState(canon, resetProcessKeepStats(canon)) ELSE canon
       IN /\ canon' = new
          /\ storage' = IF target THEN saveToStorage(new) ELSE storage
          /\ stoppedBy' = stopCause(new, "closed")
          /\ popup' = IF target THEN [isProcessing |-> FALSE, isPaused |-> FALSE] ELSE popup
          /\ tabClosedLog' = IF target
                             THEN Append(tabClosedLog,
                                         [tabId |-> tikTab, stats |-> new.stats,
                                          wasRunning |-> canon.process.isRunning])
                             ELSE tabClosedLog
    /\ tikTab' = NoTab
    /\ csAlive' = FALSE
    /\ toTab' = <<>>
    /\ cache' = defaultState
    /\ wf' = [w \in W |-> idleWorkflow]
    /\ toBg' = [i \in DOMAIN toBg |-> [toBg[i] EXCEPT !.awaiter = 0]]
    /\ pauseHandled' = FALSE
    /\ border' = FALSE
    /\ UNCHANGED <<nextTab, rrPending, starts, pauses, items, quota, routerVars, mergeVars, uiVars, bgVars>>

(* --------------------------- content script --------------------------- *)
csFrame == UNCHANGED <<canon, popup, stoppedBy, border, tikTab, csAlive, nextTab, rrPending, tabClosedLog,
                       starts, pauses, items, quota, storage, routerVars, mergeVars, uiVars, bgVars>>

\* StateStore.setupListeners: a pushed state replaces the cache
CsReceiveState ==
    /\ toTab # <<>>
    /\ Head(toTab).type = "STATE_CHANGED"
    /\ toTab' = Tail(toTab)
    /\ cache' = Head(toTab).payload
    /\ UNCHANGED <<toBg, wf, pauseHandled>>
    /\ csFrame

\* the PAUSE_REMOVAL / RESUME_REMOVAL handlers of main.js: StateStore.setPaused
CsReceivePause ==
    /\ toTab # <<>>
    /\ Head(toTab).type \in {"PAUSE_REMOVAL", "RESUME_REMOVAL"}
    /\ Len(toBg) < MaxQueue
    /\ toTab' = Tail(toTab)
    /\ LET isPaused == Head(toTab).type = "PAUSE_REMOVAL"
       IN /\ cache' = storeDeepMerge(cache, setPausedUpdates(isPaused))
          /\ toBg' = Append(toBg, Msg("UPDATE_STATE", setPausedUpdates(isPaused), 0))
          /\ pauseHandled' = (isPaused /\ \E w \in W : Active(w))
    /\ UNCHANGED wf
    /\ csFrame

FreeSlots == {w \in W : ~Active(w)}

\* START_REMOVAL reaches the MessageBus of main.js. Before the initialization
\* has registered the handler, handleMessage answers 'Unknown message type'
\* and nothing starts; after it, the handler: WorkflowManager.start up to the
\* await of startProcess
CsReceiveStart ==
    /\ toTab # <<>>
    /\ Head(toTab).type = "START_REMOVAL"
    /\ toTab' = Tail(toTab)
    /\ IF ~csReady \/ cache.process.isRunning
       THEN UNCHANGED <<cache, toBg, wf, pauseHandled>>
       ELSE /\ FreeSlots # {}
            /\ Len(toBg) < MaxQueue
            /\ LET w == CHOOSE x \in FreeSlots : \A y \in FreeSlots : x <= y
               IN /\ wf' = [wf EXCEPT ![w] = [idleWorkflow EXCEPT !.pc = "nav"]]
                  /\ toBg' = Append(toBg, Msg("UPDATE_STATE", startProcessUpdates, w))
            /\ cache' = storeDeepMerge(cache, startProcessUpdates)
            /\ pauseHandled' = FALSE
    /\ csFrame


(* ------------------------- WorkflowManager steps ---------------------- *)
\* what no step of WorkflowManager changes
wfCore == UNCHANGED <<canon, toTab, popup, stoppedBy, tikTab, csAlive, nextTab, rrPending,
                       tabClosedLog, starts, pauses, pauseHandled, items, quota, storage,
                       routerVars, mergeVars, uiVars, bgVars>>

wfFrame == wfCore /\ UNCHANGED border

Broadcast(type, payload) == Msg(type, payload, 0)

\* StateStore.update: the cache is merged at once, UPDATE_STATE is sent and awaited
Update(w, updates) == Msg("UPDATE_STATE", updates, w)

handleErrorThenFinish(w) ==
    /\ Len(toBg) < MaxQueue
    /\ cache' = storeDeepMerge(cache, stopProcessUpdates)
    /\ toBg' = Append(toBg, Update(w, stopProcessUpdates))
    /\ wf' = [wf EXCEPT ![w].pc = "complete", ![w].failed = TRUE]

\* WorkflowManager.handleError up to the await of stopProcess
handleError(w) ==
    /\ Len(toBg) < MaxQueue
    /\ cache' = storeDeepMerge(cache, stopProcessUpdates)
    /\ toBg' = Append(toBg, Update(w, stopProcessUpdates))
    /\ wf' = [wf EXCEPT ![w].pc = "error", ![w].failed = TRUE]

\* the payload of ERROR: { message, error: error.toString() }; error is '' when
\* a step reports its own failure and the exception when one was caught
errorPayload(threw) == [message |-> "stopped", error |-> IF threw THEN "exception" ELSE ""]

\* handleError after stopProcess: the border is removed, ERROR is broadcast
ErrorBroadcast(w) ==
    /\ wf[w].pc = "error"
    /\ AwaitDone(w)
    /\ Len(toBg) < MaxQueue
    /\ toBg' = Append(toBg, Broadcast("ERROR", errorPayload(wf[w].threw)))
    /\ wf' = [wf EXCEPT ![w].pc = "done", ![w].errSent = TRUE]
    /\ border' = FALSE
    /\ UNCHANGED cache
    /\ wfCore

\* start() after startProcess: the border is created; step_navigateToProfile:
\* the DOM decides whether the profile is reached
NavigateToProfile(w) ==
    /\ wf[w].pc = "nav"
    /\ AwaitDone(w)
    /\ \E ok \in BOOLEAN :
          IF ok
          THEN /\ wf' = [wf EXCEPT ![w].pc = "tab"]
               /\ UNCHANGED <<cache, toBg>>
          ELSE handleError(w)
    /\ border' = TRUE
    /\ wfCore

\* step_switchToRepostsTabAndScroll: step_navigateToRepostsTab, autoScrollToBottom
\* (its last onProgress), setTotal
SwitchToRepostsTabAndScroll(w) ==
    /\ wf[w].pc = "tab"
    /\ \/ handleError(w)
       \/ \E found \in 0..Len(items) :
             /\ Len(toBg) + 2 <= MaxQueue
             /\ toBg' = toBg \o <<Broadcast("UPDATE_PROGRESS", [current |-> 0, total |-> found]),
                                  Update(w, setTotalUpdates(found))>>
             /\ cache' = storeDeepMerge(cache, setTotalUpdates(found))
             /\ wf' = [wf EXCEPT ![w].pc = "total"]
    /\ wfFrame

\* finishProcess up to the await of stopProcess
finishProcess(w, before) ==
    /\ Len(toBg) + Len(before) < MaxQueue
    /\ toBg' = toBg \o before \o <<Update(w, stopProcessUpdates)>>
    /\ cache' = storeDeepMerge(cache, stopProcessUpdates)
    /\ wf' = [wf EXCEPT ![w].pc = "complete",
                        ![w].finRemoved = cache.stats.removedVideos,
                        ![w].finTotal = cache.stats.totalReposts]

CheckTotalOpensAnyway(w) ==
    /\ wf[w].pc = "total"
    /\ AwaitDone(w)
    /\ wf' = [wf EXCEPT ![w].pc = "open"]
    /\ UNCHANGED <<cache, toBg>>
    /\ wfFrame

\* start() after step_switchToRepostsTabAndScroll: nothing found ends the run
CheckTotal(w) ==
    /\ wf[w].pc = "total"
    /\ AwaitDone(w)
    /\ IF cache.stats.totalReposts = 0
       THEN finishProcess(w, <<Broadcast("NO_REPOSTS_FOUND", NoPayload)>>)
       ELSE /\ wf' = [wf EXCEPT ![w].pc = "open"]
            /\ UNCHANGED <<cache, toBg>>
    /\ wfFrame

\* waitForElement('video.repostButton') finds the button of the item shown
repostButtonAppears(index) == index \in DOMAIN items /\ items[index] # "nobutton"

\* step_openFirstVideo, then the head of step_processVideoQueue (getQuotaInfo);
\* the first item is clicked or not (ok), and what the wait for its button
\* returns, repostButtonAppears(1), is dropped
OpenFirstVideo(w) ==
    /\ wf[w].pc = "open"
    /\ \E ok \in (IF Len(items) > 0 THEN BOOLEAN ELSE {FALSE}) :
          IF ok
          THEN /\ wf' = [wf EXCEPT ![w].pc = "loopHead",
                                   ![w].cursor = 0,
                                   ![w].removedCount = 0,
                                   ![w].maxRemoval = maxRemovalOf(getQuotaInfo),
                                   ![w].sawRunning = canon.process.isRunning]
               /\ UNCHANGED <<cache, toBg>>
          ELSE handleError(w)
    /\ wfFrame

\* a history predicate: the execution entered the loop while the canonical state
\* was running, handleRemoveReposts has since made it not running, every
\* STATE_CHANGED sent to the tab has been applied
MissesStop(w) ==
    /\ wf[w].sawRunning
    /\ ~canon.process.isRunning
    /\ stoppedBy = "restart"
    /\ \A i \in DOMAIN toTab : toTab[i].type # "STATE_CHANGED"

\* checkPauseState lets the caller go on
NotBlocked(state) == ~state.process.isPaused \/ ~state.process.isRunning

\* step_processVideoQueue from the quota check to the next await:
\* the limit, or the cursor advances and the total shown is stored
advance(w, knownTotal) ==
    IF wf[w].removedCount >= wf[w].maxRemoval
    THEN /\ wf' = [wf EXCEPT ![w].pc = "close", ![w].exit = "limit"]
         /\ UNCHANGED <<cache, toBg>>
    ELSE LET currentIndex == wf[w].cursor + 1
             displayTotal == Max(currentIndex, knownTotal)
             updates == IF displayTotal > knownTotal
                        THEN setTotalUpdates(displayTotal)
                        ELSE setCurrentVideoUpdates(currentIndex)
         IN /\ Len(toBg) < MaxQueue
            /\ toBg' = Append(toBg, Update(w, updates))
            /\ cache' = storeDeepMerge(cache, updates)
            /\ wf' = [wf EXCEPT ![w].pc = IF displayTotal > knownTotal
                                          THEN "setvid" ELSE "progress",
                                ![w].cursor = currentIndex,
                                ![w].snapTotal = displayTotal,
                                ![w].missed = @ \/ MissesStop(w)]

\* the head of the loop of step_processVideoQueue: checkPauseState, the running
\* check, then a batch load or the iteration
LoopHead(w) ==
    /\ wf[w].pc = "loopHead"
    /\ NotBlocked(cache)
    /\ IF ~cache.process.isRunning
       THEN /\ wf' = [wf EXCEPT ![w].pc = "close", ![w].exit = "stopped"]
            /\ UNCHANGED <<cache, toBg>>
       ELSE IF wf[w].cursor >= cache.stats.totalReposts
            THEN /\ wf' = [wf EXCEPT ![w].pc = "scroll",
                                     ![w].snapTotal = cache.stats.totalReposts,
                                     ![w].missed = @ \/ MissesStop(w)]
                 /\ UNCHANGED <<cache, toBg>>
            ELSE advance(w, cache.stats.totalReposts)
    /\ wfFrame

\* the batch load: autoScrollToBottom (its last onProgress), setTotal on growth
BatchScroll(w) ==
    /\ wf[w].pc = "scroll"
    /\ \E found \in 0..Len(items) :
          LET progress == Broadcast("UPDATE_PROGRESS",
                                    [current |-> wf[w].cursor, total |-> found])
          IN IF found > wf[w].snapTotal
             THEN /\ Len(toBg) + 2 <= MaxQueue
                  /\ toBg' = toBg \o <<progress, Update(w, setTotalUpdates(found))>>
                  /\ cache' = storeDeepMerge(cache, setTotalUpdates(found))
             ELSE /\ Len(toBg) < MaxQueue
                  /\ toBg' = Append(toBg, progress)
                  /\ UNCHANGED cache
    /\ wf' = [wf EXCEPT ![w].pc = "advance"]
    /\ wfFrame

\* the iteration after a batch load; state is the snapshot taken at the loop head
Advance(w) ==
    /\ wf[w].pc = "advance"
    /\ AwaitDone(w)
    /\ advance(w, wf[w].snapTotal)
    /\ wfFrame

\* setCurrentVideo, after the setTotal of the iteration
SetCurrentVideo(w) ==
    /\ wf[w].pc = "setvid"
    /\ AwaitDone(w)
    /\ Len(toBg) < MaxQueue
    /\ toBg' = Append(toBg, Update(w, setCurrentVideoUpdates(wf[w].cursor)))
    /\ cache' = storeDeepMerge(cache, setCurrentVideoUpdates(wf[w].cursor))
    /\ wf' = [wf EXCEPT ![w].pc = "progress"]
    /\ wfFrame

\* the UPDATE_PROGRESS broadcast of the iteration, then the wait for the button
ReportProgress(w) ==
    /\ wf[w].pc = "progress"
    /\ AwaitDone(w)
    /\ Len(toBg) < MaxQueue
    /\ toBg' = Append(toBg, Broadcast("UPDATE_PROGRESS",
                      [current |-> wf[w].cursor, total |-> wf[w].snapTotal]))
    /\ wf' = [wf EXCEPT ![w].pc = "button"]
    /\ UNCHANGED cache
    /\ wfFrame

\* isVideoReposted of the button found for the item at the cursor
isVideoReposted(index) == index \in DOMAIN items /\ items[index] = "repost"

RemoveOrFail(w) ==
    /\ wf[w].pc = "button"
    /\ IF ~repostButtonAppears(wf[w].cursor)
       THEN handleError(w)
       ELSE /\ Len(toBg) < MaxQueue
            /\ UNCHANGED cache
            /\ IF isVideoReposted(wf[w].cursor)
               THEN /\ toBg' = Append(toBg, Broadcast("VIDEO_REMOVED", [index |-> wf[w].cursor]))
                    /\ wf' = [wf EXCEPT ![w].pc = "sleepR", ![w].removedCount = @ + 1]
               ELSE /\ toBg' = Append(toBg, Broadcast("VIDEO_SKIPPED", [index |-> wf[w].cursor]))
                    /\ wf' = [wf EXCEPT ![w].pc = "next"]
    /\ wfFrame

\* after waitForElement('video.repostButton'): a button that is there and shows
\* a repost is clicked and VIDEO_REMOVED sent (not awaited); no button, or one
\* that shows none, gives VIDEO_SKIPPED
RemoveOrSkip(w) ==
    /\ wf[w].pc = "button"
    /\ Len(toBg) < MaxQueue
    /\ IF repostButtonAppears(wf[w].cursor) /\ isVideoReposted(wf[w].cursor)
       THEN /\ toBg' = Append(toBg, Broadcast("VIDEO_REMOVED", [index |-> wf[w].cursor]))
            /\ wf' = [wf EXCEPT ![w].pc = "sleepR", ![w].removedCount = @ + 1]
       ELSE /\ toBg' = Append(toBg, Broadcast("VIDEO_SKIPPED", [index |-> wf[w].cursor]))
            /\ wf' = [wf EXCEPT ![w].pc = "next"]
    /\ UNCHANGED cache
    /\ wfFrame

\* pausableSleep after a removal
pausableSleep(w) ==
    /\ wf[w].pc = "sleepR"
    /\ NotBlocked(cache)
    /\ wf' = [wf EXCEPT ![w].pc = "next",
                        ![w].missed = @ \/ MissesStop(w)]
    /\ UNCHANGED <<cache, toBg>>
    /\ wfFrame

\* the next button: clicked when there is a next item (the pausableSleep that
\* follows blocks like the loop head), else the loop ends
NextVideo(w) ==
    /\ wf[w].pc = "next"
    /\ wf' = IF wf[w].cursor < Len(items)
             THEN [wf EXCEPT ![w].pc = "loopHead"]
             ELSE [wf EXCEPT ![w].pc = "close", ![w].exit = "end"]
    /\ UNCHANGED <<cache, toBg>>
    /\ wfFrame

\* the player is closed; finishProcess up to the await of stopProcess
CloseAndFinish(w) ==
    /\ wf[w].pc = "close"
    /\ finishProcess(w, <<>>)
    /\ wfFrame

\* finishProcess after stopProcess: the border is removed, COMPLETE is broadcast
Complete(w) ==
    /\ wf[w].pc = "complete"
    /\ AwaitDone(w)
    /\ Len(toBg) < MaxQueue
    /\ toBg' = Append(toBg, Broadcast("COMPLETE",
                      [removedCount |-> wf[w].finRemoved, totalCount |-> wf[w].finTotal]))
    /\ wf' = [wf EXCEPT ![w] = [idleWorkflow EXCEPT !.pc = "done",
                                                    !.completeSent = TRUE,
                                                    !.failed = wf[w].failed,
                                                    !.exit = wf[w].exit,
                                                    !.missed = wf[w].missed]]
    /\ border' = FALSE
    /\ UNCHANGED cache
    /\ wfCore

WorkflowStep ==
    \E w \in W :
        \/ NavigateToProfile(w)
        \/ SwitchToRepostsTabAndScroll(w)
        \/ CheckTotal(w)
        \/ OpenFirstVideo(w)
        \/ LoopHead(w)
        \/ BatchScroll(w)
        \/ Advance(w)
        \/ SetCurrentVideo(w)
        \/ ReportProgress(w)
        \/ RemoveOrSkip(w)
        \/ pausableSleep(w)
        \/ NextVideo(w)
        \/ CloseAndFinish(w)
        \/ Complete(w)
        \/ ErrorBroadcast(w)

Next ==
    \/ ClickStart
    \/ InjectAndStart
    \/ TogglePause
    \/ PopupReopen
    \/ BgReceive
    \/ CloseTab
    \/ CsReceiveState
    \/ CsReceivePause
    \/ CsReceiveStart
    \/ WorkflowStep

Spec == Init /\ [][Next]_vars

(* ------------------------- a step that throws ------------------------- *)
\* the positions inside the try block of start(), before finishProcess
TryPcs ==
    {"nav", "tab", "total", "open", "loopHead", "scroll", "advance", "setvid", "progress",
     "button", "sleepR", "next", "close"}

catchErrorAndReturn(w) ==
    /\ wf' = [wf EXCEPT ![w].pc = "done", ![w].failed = TRUE, ![w].threw = TRUE]
    /\ UNCHANGED <<cache, toBg>>

\* the catch of start(): handleError(message, error) up to the await of stopProcess
catchError(w) ==
    /\ Len(toBg) < MaxQueue
    /\ cache' = storeDeepMerge(cache, stopProcessUpdates)
    /\ toBg' = Append(toBg, Update(w, stopProcessUpdates))
    /\ wf' = [wf EXCEPT ![w].pc = "error", ![w].failed = TRUE, ![w].threw = TRUE]

\* the code that resumes at the execution's position throws
Throw(w) ==
    /\ wf[w].pc \in TryPcs
    /\ AwaitDone(w)
    /\ catchError(w)
    /\ border' = (border \/ wf[w].pc = "nav")
    /\ wfCore

(* --------------------------- one run alone ---------------------------- *)
\* any page and any stored quota; one start click, nobody pauses, restarts or
\* closes the tab
InitRun ==
    /\ InitCommon
    /\ csReady = TRUE
    /\ NoMerge
    /\ items \in ItemLists
    /\ quota \in {NoQuota} \cup 0..MaxQuota

StartOnce == starts = 0 /\ ClickStart

NextRun ==
    \/ StartOnce
    \/ InjectAndStart
    \/ BgReceive
    \/ CsReceiveState
    \/ CsReceiveStart
    \/ WorkflowStep

SpecRun == InitRun /\ [][NextRun]_vars

\* one run alone in which any step may throw
ThrowStep == \E w \in W : Throw(w)

NextThrow == NextRun \/ ThrowStep

SpecThrow == InitRun /\ [][NextThrow]_vars

(* ---------------------- one run, pushes in order ---------------------- *)
\* every STATE_CHANGED sent to the tab has arrived
NoPushInFlight == \A i \in DOMAIN toTab : toTab[i].type # "STATE_CHANGED"

\* the run goes on only after the pushes sent so far have arrived: the
\* delivery most in favour of the cache
OrderedStep == NoPushInFlight /\ WorkflowStep

NextOrdered ==
    \/ StartOnce
    \/ InjectAndStart
    \/ BgReceive
    \/ CsReceiveState
    \/ CsReceiveStart
    \/ OrderedStep

SpecOrdered == InitRun /\ [][NextOrdered]_vars

(* ------------------- storage and background restart ------------------ *)
\* Object.assign(this.state, result.cleartokState)
ObjectAssign(target, source) ==
    [k \in DOMAIN target \cup DOMAIN source |-> IF k \in DOMAIN source THEN source[k] ELSE target[k]]

\* loadFromStorage when chrome.storage.local.get resolves: the snapshot is
\* assigned over the state of that moment and the process flags are cleared
loadFromStorageOver(state, stored) ==
    IF "cleartokState" \in DOMAIN stored
    THEN [ObjectAssign(state, stored.cleartokState)
             EXCEPT !.process.isRunning = FALSE, !.process.isPaused = FALSE,
                    !.process.tabId = NoTab]
    ELSE state

\* the StateManager constructor followed by loadFromStorage
loadFromStorage(stored) == loadFromStorageOver(defaultState, stored)

\* setInterval(() => this.saveToStorage(), 30000)
SaveTimer ==
    /\ storage' = saveToStorage(canon)
    /\ UNCHANGED <<canon, cache, toTab, toBg, wf, popup, tikTab, csAlive, nextTab, rrPending,
                   tabClosedLog, starts, pauses, pauseHandled, stoppedBy, border, items, quota,
                   routerVars, mergeVars, uiVars, bgVars>>

\* the background is stopped and started again: a new StateManager that loads
\* the snapshot; the calls of handleRemoveReposts in progress are gone
BgRestart ==
    /\ canon' = loadFromStorage(storage)
    /\ rrPending' = <<>>
    /\ stoppedBy' = stopCause(loadFromStorage(storage), "reloaded")
    /\ UNCHANGED <<cache, toTab, toBg, wf, popup, tikTab, csAlive, nextTab,
                   tabClosedLog, starts, pauses, pauseHandled, border, items, quota, storage,
                   routerVars, mergeVars, uiVars, bgVars>>

\* new StateManager(): the default state, and loadFromStorage() is called
\* without await; the listeners are registered while the read is pending
BgConstruct ==
    /\ ~loading
    /\ canon' = defaultState
    /\ loading' = TRUE
    /\ rrPending' = <<>>
    /\ stoppedBy' = stopCause(defaultState, "reloaded")
    /\ UNCHANGED <<cache, toTab, toBg, wf, popup, tikTab, csAlive, nextTab,
                   tabClosedLog, starts, pauses, pauseHandled, border, items, quota, storage,
                   routerVars, mergeVars, uiVars, rrReply, csReady>>

\* chrome.storage.local.get resolves: the rest of loadFromStorage
LoadCompletes ==
    /\ loading
    /\ loading' = FALSE
    /\ canon' = loadFromStorageOver(canon, storage)
    /\ stoppedBy' = stopCause(loadFromStorageOver(canon, storage), "reloaded")
    /\ UNCHANGED <<cache, toTab, toBg, wf, popup, tikTab, csAlive, nextTab, rrPending,
                   tabClosedLog, starts, pauses, pauseHandled, border, items, quota, storage,
                   routerVars, mergeVars, uiVars, rrReply, csReady>>

\* the asynchronous initialization of main.js ends: config.init and
\* stateStore.init have resolved, the WorkflowManager is made and the
\* START_REMOVAL handler is registered
CsInitCompletes ==
    /\ csAlive
    /\ ~csReady
    /\ csReady' = TRUE
    /\ UNCHANGED <<canon, cache, toTab, toBg, wf, popup, tikTab, csAlive, nextTab, rrPending,
                   tabClosedLog, starts, pauses, pauseHandled, stoppedBy, border, items, quota,
                   storage, routerVars, mergeVars, uiVars, loading, rrReply>>

\* one run, the timer, and a background that is started again with the read
\* of the snapshot still pending
NextLoad ==
    \/ NextRun
    \/ SaveTimer
    \/ BgConstruct
    \/ LoadCompletes

\* the URLs a tab can load: the host, and what the rest of the URL names
Url(host, rest) == [host |-> host, rest |-> rest]

\* tab.url is undefined
NoUrl == Url("undefined", "")

Urls ==
    {Url("tiktok.com", ""), Url("example.com", "tiktok.com"), Url("example.com", ""), NoUrl}

\* the URL is of the target site
OnSite(url) == url.host = "tiktok.com"

\* tab.url && tab.url.includes(text)
includes(url, text) == url # NoUrl /\ (url.host = text \/ url.rest = text)

\* chrome.tabs.onUpdated with changeInfo.status 'complete' for the tab of the
\* run, which has loaded url: the page's content scripts are gone; on the site
\* they are injected again (with RESTORE_STATE for a run in progress), off it
\* the process is reset
TabUpdated(url) ==
    /\ tikTab # NoTab
    /\ LET target == tikTab = canon.process.tabId
           onSite == includes(url, "tiktok.com")
           new == IF target /\ ~onSite THEN updateState(canon, resetProcessUpdates(FALSE))
                  ELSE canon
       IN /\ canon' = new
          /\ popup' = IF target /\ ~onSite THEN handleStateChanged(new) ELSE popup
          /\ stoppedBy' = stopCause(new, "navigated")
          /\ csAlive' = (target /\ onSite /\ OnSite(url))
          /\ cache' = IF target /\ onSite /\ OnSite(url) THEN canon ELSE defaultState
    /\ tikTab' = IF OnSite(url) THEN tikTab ELSE NoTab
    /\ toTab' = <<>>
    /\ wf' = [w \in W |-> idleWorkflow]
    /\ toBg' = [i \in DOMAIN toBg |-> [toBg[i] EXCEPT !.awaiter = 0]]
    /\ pauseHandled' = FALSE
    /\ border' = FALSE
    /\ UNCHANGED <<nextTab, rrPending, tabClosedLog, starts, pauses, items, quota, storage,
                   routerVars, mergeVars, uiVars, bgVars>>

TabNavigates == \E url \in Urls : TabUpdated(url)

\* one run, with the tab closing or loading another page, the timer and
\* restarts of the background
NextStore ==
    \/ NextRun
    \/ CloseTab
    \/ TabNavigates
    \/ SaveTimer
    \/ BgRestart

\* the pages of at most PageLen items, no stored quota
InitStore ==
    /\ InitCommon
    /\ csReady = TRUE
    /\ NoMerge
    /\ items \in {l \in ItemLists : Len(l) <= PageLen}
    /\ quota = NoQuota

SpecStore == InitStore /\ [][NextStore]_vars

SpecLoad == InitStore /\ [][NextLoad]_vars

\* messages sent are delivered and handled, and a workflow that can take its
\* next step takes it; closing or reloading the tab, clicking and restarting
\* are up to the user and the browser
Delivery == BgReceive \/ CsReceiveState \/ CsReceiveStart \/ InjectAndStart

SpecStoreLive == SpecStore /\ WF_vars(Delivery) /\ WF_vars(WorkflowStep)

\* one run in a tab whose content script has not finished its initialization
\* when the start is requested: the 500 ms that handleRemoveReposts sleeps
\* before START_REMOVAL do not order the message after the registration
InitEarly ==
    /\ InitCommon
    /\ csReady = FALSE
    /\ NoMerge
    /\ items \in ItemLists
    /\ quota = NoQuota

NextEarly ==
    \/ NextRun
    \/ CsInitCompletes

SpecEarly ==
    /\ InitEarly
    /\ [][NextEarly]_vars
    /\ WF_vars(Delivery) /\ WF_vars(WorkflowStep) /\ WF_vars(CsInitCompletes)

(* -------------------------- message delivery -------------------------- *)
MaxBuses == 2

\* what the model of a run and of its interleavings is made of
appVars == <<canon, cache, toTab, toBg, wf, popup, tikTab, csAlive, nextTab, rrPending,
             tabClosedLog, starts, pauses, pauseHandled, stoppedBy, border, items, quota,
             storage, loading, rrReply, csReady>>

Contexts == {"background", "content", "popup"}

\* the typed messages a context is sent
Delivered(ctx) ==
    IF ctx = "content"
    THEN {"PING", "PAUSE_REMOVAL", "START_REMOVAL", "STATE_CHANGED", "SELECTORS_UPDATED"}
    ELSE IF ctx = "background"
    THEN {"PING", "GET_STATE", "UPDATE_PROGRESS", "UI_WAIT_TIMEOUT", "REMOVE_REPOSTS"}
    ELSE {"PING", "STATE_CHANGED", "UPDATE_PROGRESS"}

Listener(kind, n) == [kind |-> kind, n |-> n]

\* the chrome.runtime.onMessage listeners of a context: in the content script
\* the MessageBus of main.js (n = 0), one more MessageBus for every
\* waitForElement timeout, ConfigManager and StateStore
Listeners(ctx) ==
    IF ctx = "content"
    THEN {Listener("MessageBus", n) : n \in 0..extraBuses}
         \cup {Listener("ConfigManager", 0), Listener("StateStore", 0)}
    ELSE IF ctx = "background" THEN {Listener("background", 0)}
    ELSE {Listener("MessageService", 0)}

\* the handlers registered with on() on the MessageBus of main.js; a
\* MessageBus made by waitForElement has none
RegisteredHandlers(l) ==
    IF l.n = 0 THEN {"PING", "PAUSE_REMOVAL", "RESUME_REMOVAL", "START_REMOVAL",
                     "CHECK_LOGIN_STATUS", "NAVIGATE_TO_REPOSTS"}
    ELSE {}

\* MessageBus.getDefaultHandler
DefaultHandlers ==
    {"UPDATE_PROGRESS", "VIDEO_REMOVED", "STATUS_UPDATE", "ERROR", "PING", "RESTORE_STATE"}

\* the handlers app.js registers with messageService.on()
PopupHandlers ==
    {"STATE_CHANGED", "LOGIN_STATUS_UPDATE", "UPDATE_PROGRESS", "VIDEO_REMOVED",
     "VIDEO_SKIPPED", "WAITING", "STATUS_UPDATE", "UI_WAIT_TIMEOUT", "ERROR", "COMPLETE",
     "NO_REPOSTS_FOUND", "TAB_CLOSED"}

\* the types the background's listener calls sendResponse for
BackgroundAnswered ==
    {"PAUSE_REMOVAL", "RESUME_REMOVAL", "NAVIGATE_TO_REPOSTS", "PING", "GET_STATE",
     "UPDATE_STATE", "RESET_STATE", "UPDATE_PROGRESS", "VIDEO_REMOVED", "VIDEO_SKIPPED",
     "STATUS_UPDATE", "ERROR", "COMPLETE", "NO_REPOSTS_FOUND", "ENSURE_SELECTORS",
     "REMOVE_REPOSTS", "CHECK_LOGIN_TAB"}

\* the listener calls sendResponse for a message of this type
Answers(l, type) ==
    IF l.kind = "MessageBus" THEN TRUE
    ELSE IF l.kind = "ConfigManager" THEN type = "SELECTORS_UPDATED"
    ELSE IF l.kind = "StateStore" THEN FALSE
    ELSE IF l.kind = "background" THEN type \in BackgroundAnswered
    ELSE type \in PopupHandlers

\* the values given to sendResponse

\* what the handler of a type returns
HandlerResult(type) == IF type = "PING" THEN "PONG" ELSE "undefined"

\* the listener runs code that can throw before it answers
CanThrow(l, type) ==
    \/ l.kind = "MessageBus" /\ type \in (RegisteredHandlers(l) \cup DefaultHandlers) \ {"PING"}
    \/ l.kind = "background" /\ type \in {"ENSURE_SELECTORS", "REMOVE_REPOSTS", "CHECK_LOGIN_TAB"}
    \/ l.kind = "MessageService"

\* MessageBus.handleMessage
handleMessage(l, type, threw) ==
    IF type \in RegisteredHandlers(l) \cup DefaultHandlers
    THEN IF threw THEN FailureReply("error.message") ELSE SuccessReply(HandlerResult(type))
    ELSE FailureReply("Unknown message type")

\* what a listener that answers gives to sendResponse
ReplyOf(l, type, threw) ==
    IF l.kind = "MessageBus" THEN handleMessage(l, type, threw)
    ELSE IF l.kind = "ConfigManager" THEN SuccessReply("reloaded selectors")
    ELSE IF l.kind = "background"
         THEN IF type = "PING" THEN RawReply("PONG")
              ELSE IF threw THEN FailureReply("error.message")
              ELSE SuccessReply(IF type \in {"GET_STATE", "REMOVE_REPOSTS", "CHECK_LOGIN_TAB"}
                                THEN "result" ELSE "undefined")
    ELSE IF threw THEN FailureReply("error.message") ELSE SuccessReply("undefined")

\* chrome.runtime.onMessage calls every listener of the context
Deliver(ctx, type) ==
    /\ delivery = NoDelivery
    /\ delivery' = [ctx |-> ctx, type |-> type]
    /\ pendingL' = {l \in Listeners(ctx) : Answers(l, type)}
    /\ replies' = <<>>
    /\ UNCHANGED <<extraBuses, received>>
    /\ UNCHANGED <<appVars, mergeVars, uiVars>>

\* UIManager.waitForElement runs out of time: a new MessageBus, which adds its
\* listener, sends UI_WAIT_TIMEOUT to the background
WaitTimeout ==
    /\ delivery = NoDelivery
    /\ extraBuses < MaxBuses
    /\ extraBuses' = extraBuses + 1
    /\ delivery' = [ctx |-> "background", type |-> "UI_WAIT_TIMEOUT"]
    /\ pendingL' = {l \in Listeners("background") : Answers(l, "UI_WAIT_TIMEOUT")}
    /\ replies' = <<>>
    /\ UNCHANGED received
    /\ UNCHANGED <<appVars, mergeVars, uiVars>>

\* a listener calls sendResponse
Respond ==
    /\ \E l \in pendingL : \E threw \in BOOLEAN :
          /\ threw => CanThrow(l, delivery.type)
          /\ pendingL' = pendingL \ {l}
          /\ replies' = Append(replies, [by |-> l, value |-> ReplyOf(l, delivery.type, threw)])
    /\ UNCHANGED <<extraBuses, delivery, received>>
    /\ UNCHANGED <<appVars, mergeVars, uiVars>>

\* the sender gets the first reply, or undefined when no listener answered
Settle ==
    /\ delivery # NoDelivery
    /\ pendingL = {}
    /\ received' = IF replies = <<>> THEN NoReply ELSE Head(replies).value
    /\ delivery' = NoDelivery
    /\ replies' = <<>>
    /\ UNCHANGED <<extraBuses, pendingL>>
    /\ UNCHANGED <<appVars, mergeVars, uiVars>>

DeliverAny == \E ctx \in Contexts : \E type \in Delivered(ctx) : Deliver(ctx, type)

NextRouter ==
    \/ DeliverAny
    \/ WaitTimeout
    \/ Respond
    \/ Settle

SpecRouter == Init /\ [][NextRouter]_vars

(* --------------------------- a merge alone ---------------------------- *)
MaxListLen == 2

\* the arrays a removedList is taken from
Lists == UNION {[1..n -> 1..2] : n \in 0..MaxListLen}

\* the objects over some of the keys, with values of the set
ObjectsOver(keys, values) == {JsObject(f) : f \in UNION {[S -> values] : S \in SUBSET keys}}

\* states of the shape of StateManager.state
PrevStates ==
    {JsObject([process |-> JsObject([isRunning |-> r, tabId |-> t]),
               stats |-> JsObject([removedVideos |-> v]),
               removedList |-> JsArray(l)]) :
        r \in {JsPrim(0), JsPrim(1)}, t \in {JsNull, JsPrim(1)},
        v \in {JsPrim(0), JsPrim(1)}, l \in Lists}

\* what a partial holds under a key, JsUndefined for a key it has not: the
\* updates the program sends have the types of the state; lastError and
\* currentVideo are keys these states have not
PartialValues(key) ==
    {JsUndefined} \cup
    (IF key = "process"
     THEN ObjectsOver({"isRunning", "tabId"}, {JsPrim(0), JsPrim(1), JsNull})
     ELSE IF key = "stats" THEN ObjectsOver({"removedVideos"}, {JsPrim(0), JsPrim(1)})
     ELSE IF key = "removedList" THEN {JsArray(l) : l \in Lists}
     ELSE IF key = "lastError" THEN {JsPrim(1), JsNull}
     ELSE {JsObject([index |-> JsPrim(1)])})

\* the object that has the keys whose choice is not JsUndefined
ObjectOf(choice) ==
    JsObject([k \in {x \in DOMAIN choice : choice[x] # JsUndefined} |-> choice[k]])

Partials ==
    {ObjectOf([process |-> p, stats |-> s, removedList |-> l, lastError |-> e,
               currentVideo |-> c]) :
        p \in PartialValues("process"), s \in PartialValues("stats"),
        l \in PartialValues("removedList"), e \in PartialValues("lastError"),
        c \in PartialValues("currentVideo")}

InitMerge ==
    /\ InitCommon
    /\ csReady = TRUE
    /\ items = mixedItems
    /\ quota = NoQuota
    /\ mergePrev \in PrevStates
    /\ mergePartial \in Partials
    /\ mergeResult = JsUndefined

\* StateManager.updateState(partial): this.state = deepMerge(this.state, partial)
UpdateStateMerge ==
    /\ mergeResult = JsUndefined
    /\ mergeResult' = jsDeepMerge(mergePrev, mergePartial)
    /\ UNCHANGED <<mergePrev, mergePartial>>
    /\ UNCHANGED <<appVars, routerVars, uiVars>>

SpecMerge == InitMerge /\ [][UpdateStateMerge]_vars

(* ---------------------- StateStore mutations alone -------------------- *)
\* StateStore.set: the update built from a dotted path, { [key]: ... { [lastKey]: value } }
RECURSIVE setUpdates(_, _)
setUpdates(path, value) ==
    IF Len(path) = 1 THEN [k \in {path[1]} |-> value]
    ELSE [k \in {path[1]} |-> setUpdates(Tail(path), value)]

\* StateStore.incrementRemoved(videoInfo)
incrementRemovedUpdates(state, videoInfo) ==
    [stats |-> [removedVideos |-> state.stats.removedVideos + 1],
     removedList |-> Append(state.removedList, videoInfo)]

MutationMethods ==
    {"update", "set", "startProcess", "stopProcess", "setPaused", "setTotal",
     "setCurrentVideo", "incrementRemoved", "reset"}

\* the update a mutation method hands to update(), for an argument 0 or 1
MutationUpdates(method, state, arg) ==
    CASE method = "update" ->
            [stats |-> [processedVideos |-> arg, totalReposts |-> arg + 1]]
      [] method = "set" -> setUpdates(<<"stats", "skippedVideos">>, arg)
      [] method = "startProcess" -> startProcessUpdates
      [] method = "stopProcess" -> stopProcessUpdates
      [] method = "setPaused" -> setUpdates(<<"process", "isPaused">>, arg = 1)
      [] method = "setTotal" -> setUpdates(<<"stats", "totalReposts">>, arg)
      [] method = "setCurrentVideo" -> setCurrentVideoUpdates(arg)
      [] method = "incrementRemoved" -> incrementRemovedUpdates(state, arg)
      [] OTHER -> EmptyObject

\* StateStore.reset: this.state = { ...this.defaultState }
reset(state) == defaultState

\* a mutation method called while cache and canonical state are equal and
\* nothing is in flight: the cache changes at once, the message is sent
StoreMutation(method, arg) ==
    /\ csAlive
    /\ toBg = <<>>
    /\ toTab = <<>>
    /\ cache = canon
    /\ method = "incrementRemoved" => Len(cache.removedList) < MaxItems
    /\ IF method = "reset"
       THEN /\ cache' = reset(cache)
            /\ toBg' = <<Msg("RESET_STATE", NoPayload, 0)>>
       ELSE /\ cache' = storeDeepMerge(cache, MutationUpdates(method, cache, arg))
            /\ toBg' = <<Msg("UPDATE_STATE", MutationUpdates(method, cache, arg), 0)>>
    /\ UNCHANGED <<toTab, wf, pauseHandled>>
    /\ csFrame

Mutates == \E method \in MutationMethods : \E arg \in 0..1 : StoreMutation(method, arg)

\* the states cache and canonical state are equal in at the start
MutationStates ==
    {[process |-> [isRunning |-> r, isPaused |-> p, tabId |-> t, startTime |-> st],
      stats |-> IF n = 0 THEN ZeroStats
                ELSE [totalReposts |-> 1, processedVideos |-> 1, removedVideos |-> 1,
                      skippedVideos |-> 0],
      currentVideo |-> [index |-> n],
      removedList |-> IF n = 0 THEN <<>> ELSE <<1>>] :
        r \in BOOLEAN, p \in BOOLEAN, t \in {NoTab, 1}, st \in {NoTime, Now}, n \in 0..1}

\* the content script of tab 1 is alive
InitMutate ==
    /\ canon \in MutationStates
    /\ cache = canon
    /\ tikTab = 1
    /\ csAlive = TRUE
    /\ nextTab = 2
    /\ toTab = <<>>
    /\ toBg = <<>>
    /\ wf = [w \in W |-> idleWorkflow]
    /\ popup = handleStateChanged(canon)
    /\ rrPending = <<>>
    /\ tabClosedLog = <<>>
    /\ starts = 0
    /\ pauses = 0
    /\ pauseHandled = FALSE
    /\ stoppedBy = "none"
    /\ border = FALSE
    /\ storage = EmptyObject
    /\ extraBuses = 0
    /\ delivery = NoDelivery
    /\ pendingL = {}
    /\ replies = <<>>
    /\ received = NoReply
    /\ scroll = NoScroll
    /\ wait = NoWait
    /\ loading = FALSE
    /\ csReady = TRUE
    /\ rrReply = NoReply
    /\ NoMerge
    /\ items = mixedItems
    /\ quota = NoQuota

NextMutate ==
    \/ Mutates
    \/ BgReceive
    \/ CsReceiveState

SpecMutate == InitMutate /\ [][NextMutate]_vars

(* ------------------- UIManager.autoScrollToBottom alone ---------------- *)
\* the item counts and page heights a poll can see; the polls since the last
\* growth are counted up to MaxSince
MaxCount == 1
MaxHeight == 2
MaxSince == 7

\* setInterval(..., POLL_INTERVAL) and the setTimeout of 5 minutes, in ms
POLL_INTERVAL == 800

ScrollTimeout == 300000

\* the default of maxItems
Infinity == -2

isFinite(x) == x # Infinity

\* the polls without change the call tolerates
maxNoChangeCountLong(cappedMax) == 6

maxNoChangeCountOf(cappedMax) == IF isFinite(cappedMax) /\ cappedMax > 200 THEN 6 ELSE 3

\* what callers pass as maxItems: nothing, the quota left (0), a batch target
MaxItemsChoices == {Infinity, 0, 201}

\* what findAllElements(itemSelectorKey).length can be at a poll
Counts == (0..MaxCount) \cup {m + 10 : m \in {0}}

\* what document.body.scrollHeight can be at a poll
Heights == 1..MaxHeight

Min(a, b) == IF a <= b THEN a ELSE b

\* the call: the locals are set, the interval and the timer are started
AutoScrollToBottom(maxItems) ==
    /\ scroll.phase = "idle"
    /\ scroll' = [NoScroll EXCEPT !.phase = "polling",
                                  !.maxItems = maxItems,
                                  !.maxNoChangeCount = maxNoChangeCountOf(maxItems)]
    /\ UNCHANGED <<appVars, routerVars, mergeVars, wait>>

finalizeWithLastCount(s, count, cause) ==
    IF s.finished THEN s
    ELSE [s EXCEPT !.finished = TRUE, !.phase = "resolved",
                   !.calls = Append(@, TRUE),
                   !.measured = count,
                   !.result = s.lastItemsCount,
                   !.endedBy = cause]

\* finalize: once; the timers are cleared, the items are counted again,
\* onProgress(count, true) is called and the promise resolved with the count
finalize(s, count, cause) ==
    IF s.finished THEN s
    ELSE [s EXCEPT !.finished = TRUE, !.phase = "resolved",
                   !.calls = Append(@, TRUE),
                   !.measured = count,
                   !.result = count,
                   !.endedBy = cause]

\* the callbacks of one poll: the first poll reports, and a poll whose count
\* exceeds lastItemsCount reports (the first poll too, lastItemsCount being 0)
pollReports(s, currentCount) ==
    LET calls1 == IF ~s.firstProgressReported THEN Append(s.calls, FALSE) ELSE s.calls
        calls2 == IF currentCount > s.lastItemsCount THEN Append(calls1, FALSE) ELSE calls1
    IN [s EXCEPT !.firstProgressReported = TRUE, !.calls = calls2]

\* one run of the interval callback, the page showing currentCount items and
\* being currentHeight high
Poll(currentCount, currentHeight) ==
    /\ scroll.phase = "polling"
    /\ scroll.elapsed + POLL_INTERVAL <= ScrollTimeout
    /\ LET first == ~scroll.firstProgressReported
           grew == currentCount > scroll.lastItemsCount
           reported == pollReports(scroll, currentCount)
           counted == IF grew THEN 0 ELSE scroll.noChangeCount + 1
           capped == isFinite(scroll.maxItems) /\ currentCount >= scroll.maxItems + 10
           heightChanged == currentHeight # scroll.lastHeight
           s1 == [reported EXCEPT
                     !.elapsed = @ + POLL_INTERVAL,
                     !.lastItemsCount = IF grew THEN currentCount ELSE @,
                     !.noChangeCount = counted,
                     !.growths = IF grew /\ ~first THEN @ + 1 ELSE @,
                     !.sinceGrowth = IF grew THEN 0
                                     ELSE IF @ = NoGrowth THEN NoGrowth
                                     ELSE Min(@ + 1, MaxSince),
                     !.sinceChange = IF grew THEN 0 ELSE Min(@ + 1, MaxSince)]
           s2 == [s1 EXCEPT !.lastHeight = currentHeight,
                            !.noChangeCount = IF heightChanged THEN 0 ELSE @,
                            !.sinceChange = IF heightChanged THEN 0 ELSE @]
       IN scroll' = IF capped THEN finalize(s1, currentCount, "cap")
                    ELSE IF s2.noChangeCount >= s2.maxNoChangeCount
                         THEN finalize(s2, currentCount, "nochange")
                         ELSE s2
    /\ UNCHANGED <<appVars, routerVars, mergeVars, wait>>

Polls == \E currentCount \in Counts, currentHeight \in Heights : Poll(currentCount, currentHeight)

\* the timer of 5 minutes fires: it is due before the next poll, or with it
ScrollTimedOut ==
    /\ scroll.phase = "polling"
    /\ scroll.elapsed + POLL_INTERVAL >= ScrollTimeout
    /\ \E count \in Counts :
          scroll' = finalize([scroll EXCEPT !.elapsed = ScrollTimeout], count, "timer")
    /\ UNCHANGED <<appVars, routerVars, mergeVars, wait>>

NextScroll ==
    \/ \E maxItems \in MaxItemsChoices : AutoScrollToBottom(maxItems)
    \/ Polls
    \/ ScrollTimedOut

SpecScroll == Init /\ [][NextScroll]_vars

\* the interval and the timer of a call that has not resolved do fire
SpecScrollLive == SpecScroll /\ WF_vars(Polls) /\ WF_vars(ScrollTimedOut)

(* --------------------- UIManager.waitForElement alone ------------------ *)
\* a timer fires up to MaxLate tenths of a second after it is due
MaxLate == 1

\* setTimeout(check, interval), in ms
WAIT_INTERVAL == 200

\* timeouts the workflow passes, in ms
Timeouts == {2000, 3000, 5000}

Lates == {k * 100 : k \in 0..MaxLate}

checkTimeoutFirst(s) ==
    IF s.elapsed > s.timeout
    THEN [s EXCEPT !.phase = "resolved", !.result = "null", !.diagnostics = @ + 1]
    ELSE IF s.present
    THEN [s EXCEPT !.phase = "resolved", !.result = "element"]
    ELSE s

\* check: the element if findElement has one; past endTime one UI_WAIT_TIMEOUT
\* is sent and null is the result; else check is scheduled again
check(s) ==
    IF s.present
    THEN [s EXCEPT !.phase = "resolved", !.result = "element"]
    ELSE IF s.elapsed > s.timeout
    THEN [s EXCEPT !.phase = "resolved", !.result = "null", !.diagnostics = @ + 1]
    ELSE s

\* the timed-out check makes a MessageBus of its own to send the diagnostic
busesAfter(s) == IF s.result = "null" THEN extraBuses + 1 ELSE extraBuses

\* the call, with the first check
WaitForElement(timeout, present) ==
    /\ wait.phase = "idle"
    /\ wait' = check([NoWait EXCEPT !.phase = "waiting", !.timeout = timeout,
                                    !.present = present])
    /\ extraBuses' = busesAfter(wait')
    /\ UNCHANGED <<appVars, delivery, pendingL, replies, received, mergeVars, scroll>>

\* the element comes into the page
ElementAppears ==
    /\ wait.phase = "waiting"
    /\ ~wait.present
    /\ wait' = [wait EXCEPT !.present = TRUE]
    /\ UNCHANGED <<appVars, routerVars, mergeVars, scroll>>

\* the timer set by check fires
CheckAgain(late) ==
    /\ wait.phase = "waiting"
    /\ wait' = check([wait EXCEPT !.elapsed = @ + WAIT_INTERVAL + late])
    /\ extraBuses' = busesAfter(wait')
    /\ UNCHANGED <<appVars, delivery, pendingL, replies, received, mergeVars, scroll>>

ChecksAgain == \E late \in Lates : CheckAgain(late)

NextWait ==
    \/ \E timeout \in Timeouts, present \in BOOLEAN : WaitForElement(timeout, present)
    \/ ElementAppears
    \/ ChecksAgain

\* the timer of a waiting call does fire
SpecWait == Init /\ [][NextWait]_vars /\ WF_vars(ChecksAgain)

(* ------------------------------ claims -------------------------------- *)
\* canonical state reports a pause without a run
PausedNotRunning(state) == state.process.isPaused /\ ~state.process.isRunning

\* C1: the canonical state is never paused-and-not-running for longer than one
\* state update: an update made in such a state ends it
C1_PauseOnlyWhileRunning ==
    [][(PausedNotRunning(canon) /\ canon' # canon) => ~PausedNotRunning(canon')]_vars

\* a request to start: REMOVE_REPOSTS reaches handleRemoveReposts
StartRequested == starts' = starts + 1

\* C2: a start request made while the canonical state is running changes
\* nothing: process, stats and removedList stay as they are and no tab is made
C2_StartWhileRunningChangesNothing ==
    [][(canon.process.isRunning /\ StartRequested) =>
          /\ canon'.process = canon.process
          /\ canon'.stats = canon.stats
          /\ canon'.removedList = canon.removedList
          /\ nextTab' = nextTab]_vars

\* the execution is inside the loop of step_processVideoQueue
InLoop(w) ==
    wf[w].pc \in {"loopHead", "scroll", "advance", "setvid", "progress", "button", "sleepR", "next"}

\* C3: at most one execution of the phase sequence is active in the tab; what
\* is checked is the least the claim asks for, that two executions are never
\* inside the loop of step_processVideoQueue at once
C3_OneLoopPerTab == Cardinality({w \in W : InLoop(w)}) <= 1

\* every item of the page is a repost
AllReposts == \A i \in DOMAIN items : items[i] = "repost"

\* the execution has left the loop of step_processVideoQueue
LeftLoop(w) == wf[w].pc \in {"close", "complete"} /\ wf[w].exit # "none"

\* C4: with a stored quota of q >= 1 and more than q items, all reposts, the loop
\* never clicks more than q times and is left after exactly q clicks by the
\* daily limit, not by the end of the list
C4_QuotaCapsRemovals ==
    (quota >= 1 /\ Len(items) > quota /\ AllReposts) =>
        \A w \in W :
            /\ InLoop(w) => wf[w].removedCount <= quota
            /\ LeftLoop(w) => wf[w].removedCount = quota /\ wf[w].exit = "limit"

C4_Witness ==
    /\ quota >= 1 /\ Len(items) > quota /\ AllReposts
    /\ \E w \in W : LeftLoop(w) /\ wf[w].removedCount = quota /\ wf[w].exit = "limit"
    /\ canon.stats.removedVideos = quota

\* the execution emits VIDEO_REMOVED or VIDEO_SKIPPED in this step
EmitsItemEvent(w) == wf[w].pc = "button" /\ wf'[w].pc \in {"sleepR", "next"}

\* C5: once the content script has handled PAUSE_REMOVAL during a run, and until
\* it handles RESUME_REMOVAL or the run stops, no VIDEO_REMOVED and no
\* VIDEO_SKIPPED is emitted
C5_NoItemEventWhilePaused ==
    [][(pauseHandled /\ canon.process.isRunning /\ cache.process.isRunning) =>
          \A w \in W : ~EmitsItemEvent(w)]_vars

\* chrome.tabs.onRemoved fires in this step
TabRemoved == tikTab # NoTab /\ tikTab' = NoTab

\* C6: closing the target tab stops the run, clears tabId, keeps stats and
\* removedList and sends exactly one TAB_CLOSED with the stats; closing another
\* tab changes no canonical state and sends no TAB_CLOSED
C6_TabClosureKeepsStats ==
    [][TabRemoved =>
          IF tikTab = canon.process.tabId
          THEN /\ ~canon'.process.isRunning
               /\ canon'.process.tabId = NoTab
               /\ canon'.stats = canon.stats
               /\ canon'.removedList = canon.removedList
               /\ Len(tabClosedLog') = Len(tabClosedLog) + 1
               /\ tabClosedLog'[Len(tabClosedLog')].stats = canon.stats
               /\ tabClosedLog'[Len(tabClosedLog')].tabId = tikTab
          ELSE /\ canon' = canon
               /\ tabClosedLog' = tabClosedLog]_vars

C6_Witness ==
    /\ Len(tabClosedLog) = 1
    /\ tabClosedLog[1].wasRunning
    /\ tabClosedLog[1].stats.removedVideos >= 1
    /\ canon.stats = tabClosedLog[1].stats
    /\ canon.removedList # <<>>
    /\ ~canon.process.isRunning
    /\ canon.process.tabId = NoTab

\* the background handles StateStore.update(d) in this step, d setting the
\* one field stats.totalReposts
HandlesSetTotal ==
    /\ toBg # <<>>
    /\ toBg' = Tail(toBg)
    /\ Head(toBg).type = "UPDATE_STATE"
    /\ DOMAIN Head(toBg).payload = {"stats"}
    /\ DOMAIN Head(toBg).payload.stats = {"totalReposts"}

\* the state differs from prior in stats.totalReposts at most, which is count
OnlyTotalSet(state, prior, count) ==
    /\ state.stats = [prior.stats EXCEPT !.totalReposts = count]
    /\ state.process = prior.process
    /\ state.currentVideo = prior.currentVideo
    /\ state.removedList = prior.removedList

\* the content script applies a STATE_CHANGED in this step
AppliesStateChanged ==
    /\ toTab # <<>>
    /\ toTab' = Tail(toTab)
    /\ Head(toTab).type = "STATE_CHANGED"
    /\ tikTab' = tikTab

\* C7: after StateStore.update(d), d setting one field of stats, the state that
\* StateManager broadcasts next has that field at d's value and everything else
\* at its prior canonical value, and the cache that applies a STATE_CHANGED
\* holds exactly the state broadcast
C7_UpdateRoundTrip ==
    [][/\ HandlesSetTotal =>
            /\ OnlyTotalSet(canon', canon, Head(toBg).payload.stats.totalReposts)
            /\ (canon.process.tabId # NoTab /\ canon.process.tabId = tikTab /\ csAlive) =>
                  toTab' = Append(toTab, Msg("STATE_CHANGED", canon', 0))
       /\ AppliesStateChanged => cache' = Head(toTab).payload]_vars

C7_Witness ==
    /\ cache = canon
    /\ canon.stats.totalReposts >= 1
    /\ canon.stats.processedVideos >= 1
    /\ canon.process.isRunning
    /\ toTab = <<>>
    /\ toBg = <<>>
    /\ \E w \in W : wf[w].pc = "progress"

\* what a pause/running check decides on a state
Decision(state) ==
    IF state.process.isPaused /\ state.process.isRunning THEN "wait"
    ELSE IF ~state.process.isRunning THEN "stop" ELSE "go"

\* the execution passes a pause/running check in this step: the loop head or
\* a pausableSleep lets it go on
PassesCheck(w) ==
    \/ wf[w].pc = "loopHead" /\ wf'[w].pc \in {"scroll", "setvid", "progress"}
    \/ wf[w].pc = "sleepR" /\ wf'[w].pc = "next"

\* C8: a pause/running check of the workflow decides on the canonical state as
\* it is at the check: it lets the workflow go on only if the canonical state
\* does
C8_ChecksReadCanonical ==
    [][\A w \in W : PassesCheck(w) => Decision(canon) # "wait"
                                      /\ (wf[w].pc = "loopHead" => Decision(canon) = "go")]_vars

\* C9: once handleRemoveReposts has made the canonical state not running while
\* the execution was in the loop, and the execution has made a pause/running
\* check since (missed), it clicks no further item
C9_StopObservedAtNextCheck ==
    [][\A w \in W : (wf[w].missed /\ wf[w].pc = "button") => wf'[w].pc # "sleepR"]_vars

\* the phase of start() an execution is in: 1 NavigateToProfile, 2 LoadRepostList,
\* 3 OpenFirstItem, 4 ProcessQueue, 5 Finish, 6 the error path, 7 returned
Phase(pc) ==
    CASE pc = "idle" -> 0
      [] pc = "nav" -> 1
      [] pc \in {"tab", "total"} -> 2
      [] pc = "open" -> 3
      [] pc \in {"loopHead", "scroll", "advance", "setvid", "progress", "button", "sleepR",
                 "next", "close"} -> 4
      [] pc = "complete" -> 5
      [] pc = "error" -> 6
      [] OTHER -> 7

\* the steps from phase to phase that the claim allows: the next phase, Finish
\* straight from LoadRepostList when nothing was found, the error path from the
\* first three phases
PhaseSteps ==
    {<<0, 1>>, <<1, 2>>, <<2, 2>>, <<2, 3>>, <<2, 5>>, <<3, 4>>, <<4, 4>>, <<4, 5>>, <<5, 7>>,
     <<1, 6>>, <<2, 6>>, <<3, 6>>, <<6, 7>>}

\* what holds of an execution one of whose first three phases failed
FailedRunEndsInError(w) ==
    wf[w].failed =>
        /\ wf[w].pc \in {"error", "done"}
        /\ ~wf[w].completeSent
        /\ wf[w].cursor = 0 /\ wf[w].removedCount = 0
        /\ canon.removedList = <<>>
        /\ \A i \in DOMAIN toBg : toBg[i].type \notin {"COMPLETE", "VIDEO_REMOVED", "VIDEO_SKIPPED"}
        /\ wf[w].pc = "done" => (wf[w].errSent /\ ~canon.process.isRunning)

\* C10: the phases of a run execute in order, and when step_navigateToProfile,
\* step_switchToRepostsTabAndScroll or step_openFirstVideo fails no later phase
\* runs, ERROR is broadcast, the canonical state stops running and no COMPLETE
\* is emitted
C10_PhasesInOrderFailureAborts ==
    /\ [](\A w \in W : FailedRunEndsInError(w))
    /\ [][\A w \in W : wf'[w].pc # wf[w].pc =>
                          <<Phase(wf[w].pc), Phase(wf'[w].pc)>> \in PhaseSteps]_vars

C10_Witness ==
    \E w \in W :
        /\ wf[w].failed /\ wf[w].pc = "done" /\ wf[w].errSent /\ ~wf[w].completeSent
        /\ ~canon.process.isRunning
        /\ canon.stats.totalReposts >= 1
        /\ toBg = <<>>

\* C11: when the first item is clicked and its action button does not appear,
\* the phase fails: no execution enters the loop of step_processVideoQueue
C11_NoButtonFailsOpenFirstItem ==
    (Len(items) >= 1 /\ ~repostButtonAppears(1)) => \A w \in W : ~InLoop(w)

\* the execution ended LoadRepostList with nothing found and is finishing
NoRepostsPath(w) ==
    wf[w].pc \in {"complete", "done"} /\ ~wf[w].failed /\ wf[w].exit = "none"

\* C12: when the total stored after LoadRepostList is zero the run broadcasts
\* NO_REPOSTS_FOUND and finishes as complete: it opens no item, never enters
\* the loop, emits no ERROR, and once it has returned COMPLETE was broadcast and
\* the canonical state is not running
C12_ZeroTotalCompletes ==
    /\ [][\A w \in W :
            (wf[w].pc = "total" /\ wf'[w].pc # "total" /\ cache.stats.totalReposts = 0) =>
                /\ wf'[w].pc = "complete"
                /\ toBg' = toBg \o <<Broadcast("NO_REPOSTS_FOUND", NoPayload),
                                     Update(w, stopProcessUpdates)>>]_vars
    /\ [](\A w \in W :
            NoRepostsPath(w) =>
                /\ ~wf[w].errSent
                /\ wf[w].cursor = 0 /\ wf[w].removedCount = 0
                /\ canon.removedList = <<>>
                /\ \A i \in DOMAIN toBg :
                      toBg[i].type \notin {"ERROR", "VIDEO_REMOVED", "VIDEO_SKIPPED"}
                /\ wf[w].pc = "done" => (wf[w].completeSent /\ ~canon.process.isRunning))

C12_Witness ==
    \E w \in W :
        /\ NoRepostsPath(w) /\ wf[w].pc = "done" /\ wf[w].completeSent
        /\ canon.stats.totalReposts = 0
        /\ ~canon.process.isRunning
        /\ Len(items) >= 1
        /\ toBg = <<>>

\* C13: the COMPLETE event carries the number of items this run clicked remove
\* on: what finishProcess reads for it equals the run's count of clicks
C13_CompleteCarriesRemovedCount ==
    \A w \in W :
        (wf[w].pc = "complete" /\ wf[w].exit # "none") =>
            wf[w].finRemoved = wf[w].removedCount

\* C14: an exception thrown by a step of the phase sequence does not escape
\* start(): the catch sends the stopProcess update, and once the execution has
\* returned the canonical state is not running, the border is removed and ERROR
\* was broadcast with a message and the error detail
C14_ThrowEndsInErrorPath ==
    /\ [](\A w \in W :
            wf[w].threw =>
                /\ wf[w].pc \in {"error", "done"}
                /\ ~wf[w].completeSent
                /\ wf[w].pc = "done" =>
                      (wf[w].errSent /\ ~canon.process.isRunning /\ ~border))
    /\ [][\A w \in W :
            /\ (wf'[w].threw /\ ~wf[w].threw) =>
                  toBg' = Append(toBg, Update(w, stopProcessUpdates))
            /\ (wf[w].threw /\ wf'[w].errSent /\ ~wf[w].errSent) =>
                  /\ toBg' = Append(toBg, Broadcast("ERROR", toBg'[Len(toBg')].payload))
                  /\ toBg'[Len(toBg')].payload.message # ""
                  /\ toBg'[Len(toBg')].payload.error # ""]_vars

C14_Witness ==
    \E w \in W :
        /\ wf[w].threw /\ wf[w].pc = "done" /\ wf[w].errSent
        /\ wf[w].removedCount >= 1
        /\ ~canon.process.isRunning
        /\ ~border
        /\ toBg = <<>>

\* the START_REMOVAL handler of execution w awaits workflow.start() and has
\* not returned
StartHandlerExecuting(w) == Active(w)

\* C16: within the content script the router runs handlers one at a time in
\* arrival order: the PAUSE_REMOVAL / RESUME_REMOVAL handler never starts
\* while a START_REMOVAL handler has not returned
C16_HandlersOneAtATime ==
    [][CsReceivePause => \A w \in W : ~StartHandlerExecuting(w)]_vars

\* every listener of the context has run for the message being delivered
AllListenersRan == delivery # NoDelivery /\ pendingL = {}

\* C15: for every typed message delivered to a context exactly one reply
\* reaches the sender, also with several listeners in the context; what is
\* checked is the part that no message gets two competing replies
C15_NeverTwoReplies == Len(replies) <= 1

\* the fixed acknowledgment the probes look for
PongAck == SuccessReply("PONG")

\* MessageService.checkConnection and ProcessLoggerManager.checkTabConnection:
\* response?.success === true && response?.result === 'PONG'
checkConnection(response) ==
    response.wrapped /\ response.success /\ response.result = "PONG"

\* ensureScriptsInjected: the same test when the PING was answered; when
\* sendMessage rejects the scripts are injected and the outcome of that is returned
ensureScriptsInjected(response, rejected, injected) ==
    IF rejected THEN injected ELSE checkConnection(response)

\* C17: every context answers PING with the same fixed acknowledgment, and
\* the probes report a context as alive exactly when it answered PING with it
C17_PingSameAcknowledgment ==
    (AllListenersRan /\ delivery.type = "PING") =>
        /\ replies # <<>>
        /\ \A i \in DOMAIN replies : replies[i].value = PongAck
        /\ \A i \in DOMAIN replies :
              /\ checkConnection(replies[i].value)
              /\ ensureScriptsInjected(replies[i].value, FALSE, FALSE)

\* C18: updateState(partial) yields the recursive merge of the previous state
\* with partial: under a key of partial holding a plain object the sub-objects
\* are merged key by key, a key holding an array or a primitive gets the value
\* of partial (an array is never merged element-wise), and a key absent from
\* partial keeps its previous value
C18_UpdateStateIsRecursiveMerge ==
    mergeResult # JsUndefined =>
        LET prev == mergePrev.o
            part == mergePartial.o
            res == mergeResult.o
        IN /\ mergeResult.t = "object"
           /\ DOMAIN res = DOMAIN prev \cup DOMAIN part
           /\ \A k \in DOMAIN prev \ DOMAIN part : res[k] = prev[k]
           /\ \A k \in DOMAIN part :
                 IF part[k].t = "object"
                 THEN LET before == IF k \in DOMAIN prev THEN prev[k].o ELSE EmptyObject
                      IN /\ res[k].t = "object"
                         /\ DOMAIN res[k].o = DOMAIN before \cup DOMAIN part[k].o
                         /\ \A j \in DOMAIN part[k].o : res[k].o[j] = part[k].o[j]
                         /\ \A j \in DOMAIN before \ DOMAIN part[k].o : res[k].o[j] = before[j]
                 ELSE res[k] = part[k]

\* a merged state: process.isRunning was changed through a sub-object that has
\* no tabId, a longer removedList was replaced by a shorter one, stats was not
\* in the partial
C18_Witness ==
    /\ mergeResult # JsUndefined
    /\ DOMAIN mergePartial.o = {"process", "removedList"}
    /\ DOMAIN mergePartial.o["process"].o = {"isRunning"}
    /\ mergePartial.o["process"].o["isRunning"] # mergePrev.o["process"].o["isRunning"]
    /\ mergePrev.o["process"].o["tabId"] = JsPrim(1)
    /\ mergePrev.o["removedList"].a = <<1, 2>>
    /\ mergePartial.o["removedList"].a = <<2>>
    /\ mergePrev.o["stats"].o["removedVideos"] = JsPrim(1)

\* the value without its type, as the states of the other specifications hold it
RECURSIVE Untyped(_)
Untyped(v) ==
    IF v.t = "object" THEN [k \in DOMAIN v.o |-> Untyped(v.o[k])]
    ELSE IF v.t = "array" THEN v.a
    ELSE v.p

\* deepMerge, which tells the objects by their keys, yields what jsDeepMerge
\* yields on the values
MergeByKeyAgrees ==
    mergeResult # JsUndefined =>
        deepMerge(Untyped(mergePrev), Untyped(mergePartial)) = Untyped(mergeResult)

\* the snapshot saveToStorage writes of a state
SnapshotOf(state) ==
    [cleartokState |-> [stats |-> state.stats, removedList |-> state.removedList]]

\* the background handles a terminal event of the content script
HandlesTerminalEvent ==
    toBg # <<>> /\ Head(toBg).type \in TerminalEvents /\ toBg' = Tail(toBg)

\* the background recovers from the closing of the target tab
TabClosedRecovery == Len(tabClosedLog') > Len(tabClosedLog)

\* C19: a snapshot in durable storage holds only stats and removedList, never
\* process; a snapshot of the new state is written on every terminal event
\* (COMPLETE, ERROR, NO_REPOSTS_FOUND, tab-closed recovery); after a restart of
\* the background that loads a snapshot, process.isRunning and isPaused are
\* false and tabId is null
C19_SnapshotStatsOnlyRestartResets ==
    /\ [](storage # EmptyObject =>
             /\ DOMAIN storage = {"cleartokState"}
             /\ DOMAIN storage.cleartokState = {"stats", "removedList"})
    /\ [][(HandlesTerminalEvent \/ TabClosedRecovery) => storage' = SnapshotOf(canon')]_vars
    /\ [][(BgRestart /\ storage # EmptyObject) =>
             /\ ~canon'.process.isRunning
             /\ ~canon'.process.isPaused
             /\ canon'.process.tabId = NoTab
             /\ canon'.stats = storage.cleartokState.stats
             /\ canon'.removedList = storage.cleartokState.removedList]_vars

\* the background was restarted during a run and loaded a snapshot that
\* counts a removal
C19_Witness ==
    /\ stoppedBy = "reloaded"
    /\ storage # EmptyObject
    /\ storage.cleartokState.stats.removedVideos >= 1
    /\ canon.stats = storage.cleartokState.stats
    /\ ~canon.process.isRunning
    /\ canon.process.tabId = NoTab

\* the tab of the run completes a navigation to a URL outside the target site
LeavesSite == \E url \in Urls : ~OnSite(url) /\ TabUpdated(url)

\* C20: when the target tab completes a navigation to a URL outside the target
\* site the canonical state is fully reset (isRunning and isPaused false,
\* startTime and tabId null, currentVideo cleared) with stats and removedList
\* unchanged; a navigation-complete event of another tab changes nothing
C20_NavigationAwayResets ==
    /\ [][(LeavesSite /\ tikTab = canon.process.tabId) =>
             /\ canon'.process = [isRunning |-> FALSE, isPaused |-> FALSE,
                                  tabId |-> NoTab, startTime |-> NoTime]
             /\ canon'.currentVideo = defaultState.currentVideo
             /\ canon'.stats = canon.stats
             /\ canon'.removedList = canon.removedList]_vars
    /\ [][(TabNavigates /\ tikTab # canon.process.tabId) =>
             canon' = canon /\ storage' = storage /\ popup' = popup]_vars

\* the background processes the message a mutation method forwarded
ProcessesForwarded == toBg # <<>> /\ toBg' = Tail(toBg)

\* C21: for each StateStore mutation method the change made to the cache and
\* the change StateManager makes on the forwarded message are the same delta:
\* from equal cache and canonical state they are equal again once the
\* forwarded message has been processed
C21_MutationsForwardSameDelta == [][ProcessesForwarded => canon' = cache']_vars

\* no message is in flight between the content script and the background and
\* the content script is alive
Quiescent == csAlive /\ toTab = <<>> /\ toBg = <<>>

\* C22: the cache of the content script is eventually consistent with the
\* canonical state: in every quiescent state the StateStore cache equals the
\* StateManager state
C22_QuiescentCacheEqualsCanonical == Quiescent => cache = canon

\* an execution is inside autoScrollToBottom (the first load or a batch load)
BatchLoadInProgress == \E w \in W : wf[w].pc \in {"tab", "scroll"}

\* C23: in the canonical state, whenever no batch load is in progress,
\* removedVideos + skippedVideos <= processedVideos <= totalReposts
C23_StatsOrdered ==
    ~BatchLoadInProgress =>
        /\ canon.stats.removedVideos + canon.stats.skippedVideos <= canon.stats.processedVideos
        /\ canon.stats.processedVideos <= canon.stats.totalReposts

\* an iteration of step_processVideoQueue advances the cursor of an execution
CursorAdvanced == \E w \in W : wf'[w].cursor = wf[w].cursor + 1

\* C28: when an iteration advances the cursor, the total stored in the state
\* becomes max(cursor, known total), the known total being the stored one (with
\* the growth of the batch load of the iteration); so it does not decrease
C28_TotalIsMaxOfCursorAndKnown ==
    [][CursorAdvanced =>
          \A w \in W : wf'[w].cursor = wf[w].cursor + 1 =>
              /\ cache'.stats.totalReposts = Max(wf'[w].cursor, cache.stats.totalReposts)
              /\ cache'.stats.totalReposts >= cache.stats.totalReposts]_vars

\* C29: when the quota read by step_processVideoQueue has remaining = 0, the
\* loop ends at the limit check without clicking remove on any item
C29_ZeroQuotaRemovesNothing ==
    quota = 0 => \A w \in W : /\ wf[w].removedCount = 0
                              /\ wf[w].pc \notin {"sleepR"}

\* the execution w leaves the wait for the action button of the item at its cursor
ItemAnswered(w) == wf[w].pc = "button" /\ wf'[w].pc # "button"

\* the item at the cursor has an action button that shows a repost
ButtonFoundAndReposted(c) == c \in DOMAIN items /\ items[c] = "repost"

\* once the cursor is on an item, the execution goes on to the wait for its button
VisitedReachesButton ==
    \A w \in W : wf[w].pc \in {"setvid", "progress"} =>
                     wf'[w].pc \in {"setvid", "progress", "button"} /\ wf'[w].cursor = wf[w].cursor

\* C30: every item visited by step_processVideoQueue sends exactly one event,
\* VIDEO_REMOVED (with one more removal counted) exactly when its button was
\* found and shows a repost, VIDEO_SKIPPED otherwise; a missing button sends no
\* ERROR and does not end the loop by itself
C30_OneEventPerItem ==
    [][/\ VisitedReachesButton
       /\ \A w \in W : ItemAnswered(w) =>
            LET c == wf[w].cursor
                removed == ButtonFoundAndReposted(c)
            IN /\ toBg' = Append(toBg, Msg(IF removed THEN "VIDEO_REMOVED" ELSE "VIDEO_SKIPPED",
                                           [index |-> c], 0))
               /\ wf'[w].removedCount = wf[w].removedCount + (IF removed THEN 1 ELSE 0)
               /\ wf'[w].pc = (IF removed THEN "sleepR" ELSE "next")
               /\ wf'[w].cursor = c
               /\ ~wf'[w].failed]_vars

\* the item at the cursor has no action button, VIDEO_SKIPPED was sent for it
\* and the execution is at the next button, not failed
C30_Witness ==
    \E w \in W : /\ wf[w].pc = "next"
                 /\ wf[w].cursor \in DOMAIN items
                 /\ items[wf[w].cursor] = "nobutton"
                 /\ ~wf[w].failed
                 /\ toBg # <<>>
                 /\ toBg[Len(toBg)] = Msg("VIDEO_SKIPPED", [index |-> wf[w].cursor], 0)

\* the no-change threshold of a call: 3 polls, 6 for a finite maxItems above 200
NoChangeThreshold == IF isFinite(scroll.maxItems) /\ scroll.maxItems > 200 THEN 6 ELSE 3

ScrollResolves == scroll.phase = "polling" /\ scroll'.phase = "resolved"

C26_ProgressCallbacks ==
    LET n == Len(scroll.calls)
        nonFinal == Cardinality({i \in 1..n : ~scroll.calls[i]})
        final == Cardinality({i \in 1..n : scroll.calls[i]})
    IN /\ scroll.firstProgressReported => nonFinal = 1 + scroll.growths
       /\ scroll.phase = "polling" => final = 0
       /\ scroll.phase = "resolved" => final = 1 /\ scroll.calls[n]

\* C27: waitForElement never rejects; the wait for an element that does not
\* come resolves to null, no earlier than timeoutMs after the call and with
\* exactly one UI_WAIT_TIMEOUT sent; the wait for an element that has come
\* resolves to the element with none sent
C27_WaitResolvesNullAfterTimeout ==
    /\ [](wait.result \in {"pending", "element", "null"})
    /\ [](wait.phase # "resolved" => wait.result = "pending" /\ wait.diagnostics = 0)
    /\ [](wait.phase = "resolved" =>
             IF wait.present
             THEN wait.result = "element" /\ wait.diagnostics = 0
             ELSE /\ wait.result = "null"
                  /\ wait.diagnostics = 1
                  /\ wait.elapsed >= wait.timeout)
    /\ [][wait.phase = "resolved" => wait' = wait]_vars
    /\ (wait.phase = "waiting" ~> wait.phase = "resolved")

\* the element never came: null after the timeout, one diagnostic
C27_Witness ==
    /\ wait.phase = "resolved"
    /\ wait.result = "null"
    /\ wait.timeout = 5000
    /\ wait.elapsed > 5000
    /\ wait.diagnostics = 1

\* C32: onProgress is called at most twice in one call of autoScrollToBottom,
\* for the first count seen and at the end
C32_AtMostTwoCallbacks == Len(scroll.calls) <= 2

\* C33: in the canonical state stats.removedVideos is the length of removedList
C33_RemovedCountIsListLength == canon.stats.removedVideos = Len(canon.removedList)

\* handleRemoveReposts fails after its updateState: the tab it waited for is gone
StartFails == rrPending # <<>> /\ rrPending' = Tail(rrPending) /\ Head(rrPending) # tikTab

\* C31: when handleRemoveReposts fails after it has written the target tab, the
\* canonical state is left not running with tabId null and the request is
\* answered with a failure, not with status 'started'
C31_FailedStartResetsAndFails ==
    [][StartFails =>
          /\ ~canon'.process.isRunning
          /\ canon'.process.tabId = NoTab
          /\ rrReply'.wrapped /\ ~rrReply'.success
          /\ rrReply'.result # "started"]_vars

\* a start has failed: the failure reply, after the tab had been written
C31_Witness ==
    /\ rrReply = FailureReply("Failed to inject scripts")
    /\ starts > 0
    /\ canon.process.tabId = NoTab
    /\ tikTab = NoTab

\* loadFromStorage completes on a state that updates have made running
LoadCompletesOnRunning == loading /\ ~loading' /\ canon.process.isRunning

\* C35: an update applied between the construction of the StateManager and the
\* end of loadFromStorage is kept: the process fields, stats and removedList it
\* wrote are in the canonical state when loading completes
C35_UpdatesSurviveLoading ==
    [][LoadCompletesOnRunning =>
          /\ canon'.process.isRunning
          /\ canon'.process.tabId = canon.process.tabId
          /\ canon'.stats = canon.stats
          /\ canon'.removedList = canon.removedList]_vars

\* a removal has been counted, saved, and loaded again by a restarted background
C33_Witness ==
    /\ canon.stats.removedVideos = 1
    /\ Len(canon.removedList) = 1
    /\ "cleartokState" \in DOMAIN storage
    /\ storage.cleartokState.stats.removedVideos = 1
    /\ stoppedBy = "reloaded"

\* C34: in the canonical state a running process has a tab: isRunning implies
\* tabId is not null
C34_RunningHasTab == canon.process.isRunning => canon.process.tabId # NoTab

\* the execution has returned from start() after passing the running guard
RunTerminated(w) == wf[w].pc = "done"

\* the terminal event of the execution has been handled by the background and
\* nothing is in flight
TerminalEventHandled(w) == RunTerminated(w) /\ toBg = <<>> /\ toTab = <<>>

\* C38: a workflow run that passed the running guard and terminated has
\* emitted exactly one terminal event, ERROR or COMPLETE, and once that event
\* is handled the cache and the canonical state are not running and not paused
C38_OneTerminalEventThenStopped ==
    \A w \in W :
        /\ RunTerminated(w) => (wf[w].errSent # wf[w].completeSent)
        /\ TerminalEventHandled(w) =>
              /\ ~cache.process.isRunning /\ ~cache.process.isPaused
              /\ ~canon.process.isRunning /\ ~canon.process.isPaused

\* nothing is in flight anywhere: no message to the tab or to the background
\* and no start request in progress
NothingInFlight == toTab = <<>> /\ toBg = <<>> /\ rrPending = <<>>

\* C40: in every quiescent state the isPaused flag of the control surface
\* equals the canonical process.isPaused
C40_PopupPauseFlagIsCanonical == NothingInFlight => popup.isPaused = canon.process.isPaused

\* the update of startProcess sent by execution w has reached the background
StartApplied(w) ==
    /\ Active(w)
    /\ \A i \in DOMAIN toBg :
          ~(toBg[i].type = "UPDATE_STATE" /\ toBg[i].payload = startProcessUpdates)

\* no execution has started after w
NewestRun(w) == \A x \in W : (x > w) => ~Active(x)

\* C39: a run starts from zero: once its startProcess update is applied, the
\* canonical removedVideos and removedList count at most the removals of that
\* run, nothing that an earlier run emitted
C39_RunCountsOnlyItsOwnEvents ==
    \A w \in W :
        (StartApplied(w) /\ NewestRun(w)) =>
            /\ canon.stats.removedVideos <= wf[w].removedCount
            /\ Len(canon.removedList) <= wf[w].removedCount

\* the tab of the run is on the site with its content scripts, RESTORE_STATE
\* has put the canonical state, which says running, in the cache, nothing is
\* in flight and no workflow is executing in the tab
RunningWithoutWorkflow ==
    /\ canon.process.isRunning
    /\ canon.process.tabId = tikTab /\ tikTab # NoTab /\ csAlive
    /\ cache = canon
    /\ toTab = <<>> /\ toBg = <<>>
    /\ \A w \in W : ~Active(w)

\* C37: after a reload of the target tab on the site during a run, the
\* canonical isRunning does not stay true with no workflow executing: a
\* workflow runs again in the tab or canonical isRunning becomes false (or the
\* tab is closed or leaves the site)
C37_ReloadedRunResumesOrStops ==
    RunningWithoutWorkflow ~>
        ((\E w \in W : Active(w)) \/ ~canon.process.isRunning \/ tikTab = NoTab)

\* a workflow has begun for the request: start() was entered, so that the
\* startProcess update or an ERROR follows
WorkflowBegan == \E w \in W : wf[w].pc # "idle"

\* C36: a REMOVE_REPOSTS request answered with status 'started' is followed by
\* canonical isRunning becoming true or by an ERROR event: the START_REMOVAL
\* is not lost when it reaches the content script before the handler is
\* registered
C36_StartedLeadsToRunning ==
    (rrReply = SuccessReply("started")) ~> (canon.process.isRunning \/ WorkflowBegan)

====
